---------------------------- MODULE Spec2Model ----------------------------
(***************************************************************************)
(* Model of the schema compiler of frappe_introspector (src/app.py):       *)
(* the field mapper, the schema assembler, the API document composer and   *)
(* the detail view's field filter.                                         *)
(*                                                                         *)
(* Data representation.  A Python string on which the code works character *)
(* by character (options, fieldname, label, doctype names, paths) is a     *)
(* sequence of tokens.  A JSON value of a field record is tagged with its  *)
(* Python type: [k |-> "none"], [k |-> "str", v |-> <<...>>],              *)
(* [k |-> "int", v |-> n], [k |-> "bool", v |-> b].  A Python dict whose   *)
(* key order the code relies on (properties, schemas, paths) is a sequence *)
(* of [key, val] pairs in insertion order; the other dicts are functions   *)
(* from key to value, a missing key being a key outside the DOMAIN.        *)
(***************************************************************************)
EXTENDS Integers, Sequences, FiniteSets, TLC

VARIABLES
    pc,            \* position of the operation under way
    field,         \* argument of map_frappe_field_to_openapi
    property_def,  \* its result
    fields,        \* raw field list handed to doctype_detail / the assembler
    actual_fields, \* doctype_detail: the filtered list
    schema,        \* result of generate_doctype_schema / frappe_fields_to_typescript_json_schema
    doctypes,      \* generate_openapi_spec: the list of entity names
    provider,      \* the metadata provider: entity name -> metadata
    i,             \* generate_openapi_spec: index of the entity being processed
    spec,          \* generate_openapi_spec: the document under construction
    doctype_metadata, \* argument of generate_doctype_schema
    ts_code,       \* doctype_detail: the text of json_schema_to_typescript_interface
    info,          \* generate_openapi_spec: the info overrides
    conn,          \* OpenAPIGenerator.conn: the base URL of the connection, or None
    first_spec,    \* the document an earlier run on the same input returned, or None
    queue_status,       \* Email Queue: the status column of the document
    recipient_status,   \* Email Queue: the status column of each recipient row
    api_sends,          \* Gmail API: the messages accepted, per recipient
    job,                \* the workers that run send_email_via_gmail or send()
    overlap,            \* whether the workers may run at the same time
    current_connection, \* app.py: the module-level connection
    session,            \* the Flask session of each browser
    request             \* the requests being served, one per thread

runVars == <<info, conn, first_spec>>

emailVars == <<queue_status, recipient_status, api_sends, job, overlap>>

webVars == <<current_connection, session, request>>

vars == <<pc, field, property_def, fields, actual_fields, schema,
          doctypes, provider, i, spec, doctype_metadata, ts_code,
          runVars, emailVars, webVars>>

-----------------------------------------------------------------------------
(* Bounds of the model *)

MaxOptLen == 3

MaxFields == 2

MaxDoctypes == 3

-----------------------------------------------------------------------------
(* JSON values and Python truthiness *)

JNone == [k |-> "none"]

JStr(s) == [k |-> "str", v |-> s]

JInt(n) == [k |-> "int", v |-> n]

JBool(b) == [k |-> "bool", v |-> b]

\* bool(x) of a JSON value
Truthy(x) ==
    CASE x.k = "none" -> FALSE
      [] x.k = "str"  -> x.v # <<>>
      [] x.k = "int"  -> x.v # 0
      [] x.k = "bool" -> x.v
      [] x.k = "list" -> x.v # <<>>
      [] x.k = "dict" -> DOMAIN x.v # {}

\* dict.get(key): None when the key is missing
Get(d, key) == IF key \in DOMAIN d THEN d[key] ELSE JNone

\* dict.get(key, dflt)
GetOr(d, key, dflt) == IF key \in DOMAIN d THEN d[key] ELSE dflt

\* dict.update(e) on an unordered dict
Update(d, e) ==
    [key \in DOMAIN d \cup DOMAIN e |-> IF key \in DOMAIN e THEN e[key] ELSE d[key]]

-----------------------------------------------------------------------------
(* Python string operations *)

\* the characters str.strip() removes
Whitespace == {" ", "\t", "\r", "\n"}

RECURSIVE LStrip(_)
LStrip(s) ==
    IF s # <<>> /\ Head(s) \in Whitespace THEN LStrip(Tail(s)) ELSE s

RECURSIVE RStrip(_)
RStrip(s) ==
    IF s # <<>> /\ s[Len(s)] \in Whitespace
    THEN RStrip(SubSeq(s, 1, Len(s) - 1))
    ELSE s

\* a strip that trims the left end only
Strip_Left(s) == LStrip(s)

\* str.strip()
Strip(s) == RStrip(LStrip(s))

\* str.split(sep): the segments between the separators, empty ones included
RECURSIVE Split(_, _)
Split(s, sep) ==
    IF \A n \in 1..Len(s) : s[n] # sep
    THEN <<s>>
    ELSE LET n == CHOOSE m \in 1..Len(s) :
                      s[m] = sep /\ \A q \in 1..(m - 1) : s[q] # sep
         IN  <<SubSeq(s, 1, n - 1)>> \o Split(SubSeq(s, n + 1, Len(s)), sep)

-----------------------------------------------------------------------------
(* OpenAPIGenerator.map_frappe_field_to_openapi *)

field_type_mapping ==
    [Data |-> [type |-> "string"],
     Code |-> [type |-> "string"],
     Int |-> [type |-> "integer"],
     Float |-> [type |-> "number", format |-> "float"],
     Currency |-> [type |-> "number", format |-> "float"],
     Percent |-> [type |-> "number", format |-> "float"],
     Check |-> [type |-> "integer", enum |-> <<JInt(0), JInt(1)>>],
     Select |-> [type |-> "string"],
     Link |-> [type |-> "string"],
     Date |-> [type |-> "string", format |-> "date"],
     Datetime |-> [type |-> "string", format |-> "date-time"],
     Time |-> [type |-> "string", format |-> "time"],
     Password |-> [type |-> "string", format |-> "password", writeOnly |-> TRUE],
     Attach |-> [type |-> "string", format |-> "uri"],
     Table |-> [type |-> "array", items |-> [type |-> "object"]],
     JSON |-> [type |-> "object"],
     HTML |-> [type |-> "string"],
     Signature |-> [type |-> "string"],
     Color |-> [type |-> "string", pattern |-> "^#[0-9A-Fa-f]{6}$"],
     Barcode |-> [type |-> "string"],
     Geolocation |-> [type |-> "string"]]
    @@ ("Small Text" :> [type |-> "string"])
    @@ ("Long Text" :> [type |-> "string"])
    @@ ("Text Editor" :> [type |-> "string"])
    @@ ("Text" :> [type |-> "string", maxLength |-> 65535])
    @@ ("Attach Image" :> [type |-> "string", format |-> "uri"])

\* a lookup whose fallback is not the plain string type
TypeEntry_Fallback(fieldtype) ==
    IF fieldtype.k = "str" /\ fieldtype.v \in DOMAIN field_type_mapping
    THEN field_type_mapping[fieldtype.v]
    ELSE [type |-> "string", format |-> "text"]

\* field_type_mapping.get(fieldtype, {"type": "string"})
TypeEntry(fieldtype) ==
    IF fieldtype.k = "str" /\ fieldtype.v \in DOMAIN field_type_mapping
    THEN field_type_mapping[fieldtype.v]
    ELSE [type |-> "string"]

\* the list comprehension of lines 339-341
RECURSIVE StripNonEmpty(_)
StripNonEmpty(parts) ==
    IF parts = <<>> THEN <<>>
    ELSE (IF Strip(Head(parts)) # <<>> THEN <<JStr(Strip(Head(parts)))>> ELSE <<>>)
         \o StripNonEmpty(Tail(parts))

SelectOptions(f) == StripNonEmpty(Split(f["options"].v, "\n"))

\* lines 293-301 copying the default whenever the key is there
BaseDef_DefaultIfPresent(f) ==
    LET d0 == [description |-> GetOr(f, "label", GetOr(f, "fieldname", JStr(<<>>)))]
        d1 == IF Truthy(Get(f, "read_only")) THEN Update(d0, [readOnly |-> TRUE]) ELSE d0
    IN  IF "default" \in DOMAIN f THEN Update(d1, [default |-> f["default"]]) ELSE d1

\* lines 293-301
BaseDef(f) ==
    LET d0 == [description |-> GetOr(f, "label", GetOr(f, "fieldname", JStr(<<>>)))]
        d1 == IF Truthy(Get(f, "read_only")) THEN Update(d0, [readOnly |-> TRUE]) ELSE d0
    IN  IF Truthy(Get(f, "default")) THEN Update(d1, [default |-> f["default"]]) ELSE d1

\* lines 303-343 without the `if options:` test of line 342
TypedDef_AlwaysEnum(f) ==
    LET fieldtype == GetOr(f, "fieldtype", JStr("Data"))
        d2 == Update(BaseDef(f), TypeEntry(fieldtype))
    IN  IF fieldtype = JStr("Select") /\ Truthy(Get(f, "options"))
        THEN Update(d2, [enum |-> SelectOptions(f)])
        ELSE d2

\* lines 303-343
TypedDef(f) ==
    LET fieldtype == GetOr(f, "fieldtype", JStr("Data"))
        d2 == Update(BaseDef(f), TypeEntry(fieldtype))
    IN  IF fieldtype = JStr("Select") /\ Truthy(Get(f, "options")) /\ SelectOptions(f) # <<>>
        THEN Update(d2, [enum |-> SelectOptions(f)])
        ELSE d2

IsLinkWithOptions(f) ==
    GetOr(f, "fieldtype", JStr("Data")) = JStr("Link") /\ Truthy(Get(f, "options"))

\* line 347 raises TypeError when the description is None (None += str)
MapRaises(f) == IsLinkWithOptions(f) /\ TypedDef(f)["description"].k # "str"

map_frappe_field_to_openapi(f) ==
    LET d == TypedDef(f)
    IN  IF IsLinkWithOptions(f) /\ ~MapRaises(f)
        THEN [d EXCEPT !["description"] =
                 JStr(@.v \o <<" (Links to ">> \o f["options"].v \o <<")">>)]
        ELSE d

-----------------------------------------------------------------------------
(* Ordered dicts: a sequence of [key, val] pairs in insertion order *)

Keys(d) == {d[n].key : n \in 1..Len(d)}

Lookup(d, key) == d[CHOOSE n \in 1..Len(d) : d[n].key = key].val

\* a mapping whose existing keys are never overwritten
DictSet_KeepFirst(d, key, val) ==
    IF key \in Keys(d) THEN d ELSE Append(d, [key |-> key, val |-> val])

\* d[key] = val: an existing key keeps its position, a new key goes last
DictSet(d, key, val) ==
    IF key \in Keys(d)
    THEN [n \in 1..Len(d) |-> IF d[n].key = key THEN [key |-> key, val |-> val] ELSE d[n]]
    ELSE Append(d, [key |-> key, val |-> val])

-----------------------------------------------------------------------------
(* The field filters and the schema assembler *)

\* the list literal of lines 273-277 and 387-391 (and 1062)
SchemaSkipKinds == {"Section Break", "Column Break", "HTML"}

\* the list literal of line 820 without its last entry
DetailSkipKinds_NoTab == {"Section Break", "Column Break", "HTML"}

\* the list literal of line 820
DetailSkipKinds == {"Section Break", "Column Break", "HTML", "Tab Break"}

\* f.get("fieldtype") in kinds
FieldtypeIn(f, kinds) ==
    Get(f, "fieldtype").k = "str" /\ Get(f, "fieldtype").v \in kinds

\* lines 816-821 of doctype_detail
RECURSIVE ActualFields(_)
ActualFields(fs) ==
    IF fs = <<>> THEN <<>>
    ELSE (IF Truthy(Get(Head(fs), "fieldname")) /\ ~FieldtypeIn(Head(fs), DetailSkipKinds)
          THEN <<Head(fs)>> ELSE <<>>)
         \o ActualFields(Tail(fs))

\* the condition of the `continue` at lines 273-278 and 387-392
SchemaSkips(f) ==
    ~Truthy(Get(f, "fieldname")) \/ FieldtypeIn(f, SchemaSkipKinds)

\* lines 399-400 testing the presence of reqd instead of its truth
AppendRequired_IfPresent(required, f) ==
    IF "reqd" \in DOMAIN f THEN Append(required, f["fieldname"].v) ELSE required

\* lines 399-400 (and 282-283)
AppendRequired(required, f) ==
    IF Truthy(Get(f, "reqd")) THEN Append(required, f["fieldname"].v) ELSE required

\* a mapping in which a written key always moves to the end
SetProperty_MoveLast(properties, fieldname, descriptor) ==
    Append(SelectSeq(properties, LAMBDA e : e.key # fieldname),
           [key |-> fieldname, val |-> descriptor])

\* line 396 (and 281): schema["properties"][fieldname] = property_def
SetProperty(properties, fieldname, descriptor) ==
    DictSet(properties, fieldname, descriptor)

\* the loop of lines 386-400 (and 272-283): acc is the schema built so far
RECURSIVE ProcessFields(_, _)
ProcessFields(fs, acc) ==
    IF fs = <<>> \/ acc.raised THEN acc
    ELSE LET f == Head(fs)
             fieldname == f["fieldname"].v
         IN  IF SchemaSkips(f) THEN ProcessFields(Tail(fs), acc)
             ELSE IF MapRaises(f) THEN [acc EXCEPT !.raised = TRUE]
             ELSE ProcessFields(Tail(fs),
                    [acc EXCEPT
                       !.val.properties = SetProperty(@, fieldname, map_frappe_field_to_openapi(f)),
                       !.val.required = AppendRequired(@, f)])

\* lines 362-383: the seven standard properties
Envelope ==
    << [key |-> <<"name">>,
        val |-> [type |-> "string", description |-> JStr(<<"Document ID/name">>), readOnly |-> TRUE]],
       [key |-> <<"owner">>,
        val |-> [type |-> "string", description |-> JStr(<<"Document owner">>), readOnly |-> TRUE]],
       [key |-> <<"creation">>,
        val |-> [type |-> "string", format |-> "date-time", readOnly |-> TRUE]],
       [key |-> <<"modified">>,
        val |-> [type |-> "string", format |-> "date-time", readOnly |-> TRUE]],
       [key |-> <<"modified_by">>,
        val |-> [type |-> "string", readOnly |-> TRUE]],
       [key |-> <<"docstatus">>,
        val |-> [type |-> "integer", enum |-> <<JInt(0), JInt(1), JInt(2)>>, readOnly |-> TRUE]],
       [key |-> <<"doctype">>,
        val |-> [type |-> "string", readOnly |-> TRUE]] >>

EmptyDict == [x \in {} |-> x]

\* a call's outcome: the returned value, or raised = TRUE when an exception left it
Returned(v) == [raised |-> FALSE, val |-> v]

\* lines 351-402 without the early return of lines 356-357
generate_doctype_schema_KeepEmpty(metadata) ==
    IF metadata.k = "list" THEN Returned(EmptyDict)
    ELSE LET docs == GetOr(metadata.v, "docs", <<>>)
         IN  ProcessFields(IF docs = <<>> THEN <<>> ELSE GetOr(docs[1], "fields", <<>>),
                Returned([type |-> "object", properties |-> Envelope, required |-> <<>>]))

\* lines 351-402
generate_doctype_schema(metadata) ==
    IF metadata.k = "list" THEN Returned(EmptyDict)
    ELSE LET docs == GetOr(metadata.v, "docs", <<>>)
         IN  IF docs = <<>> THEN Returned(EmptyDict)
             ELSE ProcessFields(GetOr(docs[1], "fields", <<>>),
                    Returned([type |-> "object", properties |-> Envelope, required |-> <<>>]))

\* lines 269-284
frappe_fields_to_typescript_json_schema(fs) ==
    ProcessFields(fs, Returned([type |-> "object", properties |-> <<>>, required |-> <<>>]))

-----------------------------------------------------------------------------
(* OpenAPIGenerator._add_crud_paths *)

\* a reference into the wrong section of the document
Ref_Definitions(doctype) == ("$ref" :> (<<"#/definitions/">> \o doctype))

Ref(doctype) == ("$ref" :> (<<"#/components/schemas/">> \o doctype))

DataOf(s) == [type |-> "object", properties |-> [data |-> s]]

JsonContent(s) == [content |-> ("application/json" :> [schema |-> s])]

Described(text, r) == Update([description |-> text], r)

QueryParam(name, type) == [name |-> name, in |-> "query", schema |-> [type |-> type]]

NameParam == [name |-> "name", in |-> "path", required |-> TRUE, schema |-> [type |-> "string"]]

\* one collection path for every entity
collection_path_Shared(doctype) == <<"/api/resource/">>

collection_path(doctype) == <<"/api/resource/">> \o doctype

\* an item path that lost its {name} segment
item_path_NoName(doctype) == <<"/api/resource/">> \o doctype

item_path(doctype) == <<"/api/resource/">> \o doctype \o <<"/{name}">>

\* lines 459-539
CollectionItem(doctype) ==
    [get |->
        [tags |-> <<doctype>>,
         parameters |-> << QueryParam("fields", "string"), QueryParam("filters", "string"),
                           QueryParam("limit_start", "integer"),
                           QueryParam("limit_page_length", "integer") >>,
         responses |-> ("200" :> Described(<<"List of ">> \o doctype \o <<" documents">>,
                                    JsonContent(DataOf([type |-> "array", items |-> Ref(doctype)]))))],
     post |->
        [tags |-> <<doctype>>,
         requestBody |-> Update([required |-> TRUE], JsonContent(Ref(doctype))),
         responses |-> ("200" :> Described(doctype \o <<" document created">>,
                                    JsonContent(DataOf(Ref(doctype)))))]]

\* lines 542-606
ItemItem(doctype) ==
    [get |->
        [tags |-> <<doctype>>,
         parameters |-> <<NameParam>>,
         responses |-> ("200" :> Described(doctype \o <<" document">>,
                                    JsonContent(DataOf(Ref(doctype)))))],
     put |->
        [tags |-> <<doctype>>,
         parameters |-> <<NameParam>>,
         requestBody |-> Update([required |-> TRUE], JsonContent(Ref(doctype))),
         responses |-> ("200" :> [description |-> doctype \o <<" document updated">>])],
     delete |->
        [tags |-> <<doctype>>,
         parameters |-> <<NameParam>>,
         responses |-> ("202" :> [description |-> doctype \o <<" document deleted">>])]]

_add_crud_paths(sp, doctype) ==
    [sp EXCEPT !.paths =
        DictSet(DictSet(@, collection_path(doctype), CollectionItem(doctype)),
                item_path(doctype), ItemItem(doctype))]

-----------------------------------------------------------------------------
(* OpenAPIGenerator.json_schema_to_typescript_interface *)

\* str.join
RECURSIVE Join(_, _)
Join(parts, sep) ==
    IF parts = <<>> THEN <<>>
    ELSE IF Len(parts) = 1 THEN parts[1]
    ELSE parts[1] \o sep \o Join(Tail(parts), sep)

\* str.upper() of the first character of a token
UpperFirst(tok) ==
    CASE tok = "a" -> "A"
      [] tok = "b" -> "B"
      [] tok = "name" -> "Name"
      [] tok = "owner" -> "Owner"
      [] tok = "creation" -> "Creation"
      [] tok = "modified" -> "Modified"
      [] tok = "modified_by" -> "Modified_by"
      [] tok = "docstatus" -> "Docstatus"
      [] tok = "doctype" -> "Doctype"
      [] OTHER -> tok

\* the type name of the schema taken as the type token
TsType_Raw(details) == <<GetOr(details, "type", "any")>>

\* lines 225-243
TsType(details) ==
    LET type == GetOr(details, "type", "")
    IN  CASE type = "string"  -> <<"string">>
          [] type = "integer" -> <<"number">>
          [] type = "number"  -> <<"number">>
          [] type = "boolean" -> <<"boolean">>
          [] type = "array"   ->
                (IF "items" \in DOMAIN details /\ "type" \in DOMAIN details["items"]
                 THEN IF details["items"]["type"] = "object"
                      THEN <<"Record<string, any>">>
                      ELSE <<details["items"]["type"]>>
                 ELSE <<"any">>) \o <<"[]">>
          [] type = "object"  -> <<"Record<string, any>">>
          [] OTHER -> <<"any">>

\* the property name without the upper-casing
EnumName_NoUpper(prop) == prop \o <<"Enum">>

\* line 247
EnumName(prop) == <<UpperFirst(prop[1])>> \o Tail(prop) \o <<"Enum">>

\* lines 250-254: str(v) for the members that are no strings
FormatValue(v) ==
    CASE v.k = "str"  -> <<"'">> \o v.v \o <<"'">>
      [] v.k = "int"  -> <<ToString(v.v)>>
      [] v.k = "bool" -> <<IF v.v THEN "True" ELSE "False">>
      [] OTHER -> <<"None">>

\* lines 248-257
EnumDef(prop, details) ==
    <<"export enum ">> \o EnumName(prop) \o <<" { ">>
    \o Join([n \in 1..Len(details["enum"]) |-> FormatValue(details["enum"][n])], <<", ">>)
    \o <<" }">>

\* the marker on the required properties instead
OptionalMarker_Inverted(prop, required) == IF prop \in required THEN <<"?">> ELSE <<>>

\* line 263
OptionalMarker(prop, required) == IF prop \notin required THEN <<"?">> ELSE <<>>

\* lines 224-264 for one property: its line of the interface block
PropertyLine(prop, details, required) ==
    <<"  ">> \o prop \o OptionalMarker(prop, required) \o <<": ">>
    \o (IF "enum" \in DOMAIN details THEN EnumName(prop) ELSE TsType(details))
    \o <<";">>

\* the enum declarations, in the order the properties are visited
RECURSIVE Enums(_)
Enums(properties) ==
    IF properties = <<>> THEN <<>>
    ELSE (IF "enum" \in DOMAIN Head(properties).val
          THEN <<EnumDef(Head(properties).key, Head(properties).val)>> ELSE <<>>)
         \o Enums(Tail(properties))

\* a separator of one newline
BlockSeparator_Single == <<"\n">>

\* line 267: the separator of the blocks
BlockSeparator == <<"\n", "\n">>

\* line 247 raises IndexError on an enum property whose name is empty
EmitRaises(sch) ==
    \E n \in 1..Len(GetOr(sch, "properties", <<>>)) :
        /\ "enum" \in DOMAIN sch["properties"][n].val
        /\ sch["properties"][n].key = <<>>

\* lines 215-267
json_schema_to_typescript_interface(sch, interface_name) ==
    LET properties == GetOr(sch, "properties", <<>>)
        required == {GetOr(sch, "required", <<>>)[n] :
                        n \in 1..Len(GetOr(sch, "required", <<>>))}
        lines == <<<<"export interface ">> \o interface_name \o <<" {">>>>
                 \o [n \in 1..Len(properties) |->
                        PropertyLine(properties[n].key, properties[n].val, required)]
                 \o <<<<"}">>>>
    IN  Join(Enums(properties) \o <<Join(lines, <<"\n">>)>>, BlockSeparator)

-----------------------------------------------------------------------------
(* Inputs *)

\* a field record: the keys whose value is Absent are left out of the dict
Absent == [k |-> "absent"]

MkField(r) == [key \in {x \in DOMAIN r : r[x] # Absent} |-> r[key]]

\* all sequences over S of length at most n
SeqsUpTo(S, n) == UNION {[1..m -> S] : m \in 0..n}

OptionChars == {"A", "B", " ", "\n"}

OptionStrings == SeqsUpTo(OptionChars, MaxOptLen)

KnownTypes == DOMAIN field_type_mapping

LayoutTypes == {"Section Break", "Column Break", "Tab Break"}

\* the field records handed to the mapper
MapperFields ==
    { MkField([fieldtype |-> ft, options |-> op, label |-> lb, fieldname |-> fn,
               read_only |-> ro, default |-> df]) :
        ft \in {JStr("Select"), JStr("Link")},
        op \in {Absent, JNone} \cup {JStr(o) : o \in OptionStrings},
        lb \in {Absent, JNone, JStr(<<"L">>)},
        fn \in {Absent, JStr(<<"f">>)},
        ro \in {Absent},
        df \in {Absent, JStr(<<"A">>)} }
    \cup
    { MkField([fieldtype |-> ft, options |-> op, label |-> lb, fieldname |-> fn,
               read_only |-> ro, default |-> df]) :
        ft \in {Absent, JNone, JStr("Frobnicate")}
               \cup {JStr(t) : t \in KnownTypes \cup LayoutTypes},
        op \in {Absent, JStr(<<>>), JStr(<<"A", "\n", "B">>)},
        lb \in {Absent, JNone, JStr(<<>>), JStr(<<"L">>)},
        fn \in {Absent, JStr(<<>>), JStr(<<"f">>)},
        ro \in {Absent, JInt(0), JInt(1)},
        df \in {Absent, JNone, JInt(0), JInt(5), JStr(<<>>), JBool(FALSE), JBool(TRUE)} }

\* the field records of the field lists handed to the assembler and the detail view
ListFields ==
    { MkField([fieldname |-> fn, fieldtype |-> JStr(ft), reqd |-> rq,
               options |-> IF ft = "Select" THEN JStr(<<"A", "\n", "B">>) ELSE Absent]) :
        fn \in {JStr(<<>>), JStr(<<"a">>), JStr(<<"name">>)},
        ft \in {"Data", "Select", "HTML", "Tab Break", "Section Break"},
        rq \in {JInt(0), JInt(1)} }
    \cup
    { MkField([fieldname |-> Absent, fieldtype |-> JStr("Data"), reqd |-> JInt(1)]),
      MkField([fieldname |-> JStr(<<"a">>), fieldtype |-> Absent, reqd |-> Absent]),
      MkField([fieldname |-> JStr(<<"A">>), fieldtype |-> JStr("Select"), reqd |-> JInt(0),
               options |-> JStr(<<"B">>)]),
      MkField([fieldname |-> JStr(<<"b">>), fieldtype |-> JStr("Check"), reqd |-> JBool(TRUE)]),
      MkField([fieldname |-> JStr(<<"b">>), fieldtype |-> JStr("Column Break"), reqd |-> JInt(1)]),
      MkField([fieldname |-> JStr(<<"b">>), fieldtype |-> JStr("Link"), reqd |-> JInt(1),
               options |-> JStr(<<"X">>), label |-> JStr(<<"L">>)]),
      MkField([fieldname |-> JStr(<<"b">>), fieldtype |-> JStr("Link"), reqd |-> JInt(1),
               options |-> JStr(<<"X">>), label |-> JNone]) }

FieldLists == SeqsUpTo(ListFields, MaxFields)

\* the metadata shape generate_doctype_schema reads: {"docs": [{"fields": fs}]}
DocsOf(fs) == [k |-> "dict", v |-> [docs |-> <<[fields |-> fs]>>]]

\* the bare shape: the DocType record itself, {"fields": fs}
BareOf(fs) == [k |-> "dict", v |-> [fields |-> fs]]

\* an envelope of two documents, the second one a child DocType
MultiDocsOf(fs) ==
    [k |-> "dict",
     v |-> [docs |-> << [fields |-> fs],
                        [fields |-> <<MkField([fieldname |-> JStr(<<"child">>),
                                               fieldtype |-> JStr("Data"),
                                               reqd |-> JInt(1)])>>] >>]]

\* the other metadata values generate_doctype_schema may be handed for fs
OtherShapes(fs) ==
    {BareOf(fs), MultiDocsOf(fs)}
    \cup (IF fs = <<>>
          THEN { [k |-> "list", v |-> <<[fields |-> fs]>>],
                 [k |-> "dict", v |-> [docs |-> <<>>]],
                 [k |-> "dict", v |-> [docs |-> <<[name |-> JStr(<<"X">>)]>>]] }
          ELSE {})

\* the DocType name of the detail view's route
DetailDoctypeName == <<"Foo">>

\* property descriptors handed to json_schema_to_typescript_interface: every
\* branch of lines 225-243 and of lines 250-254
EmitterDescriptors ==
    { [type |-> "string"], [type |-> "integer"], [type |-> "number"],
      [type |-> "boolean"], [type |-> "object"],
      [type |-> "array", items |-> [type |-> "object"]],
      [type |-> "array", items |-> [type |-> "string"]],
      [type |-> "array", items |-> EmptyDict],
      [type |-> "array"],
      EmptyDict,
      [type |-> "string", enum |-> <<JStr(<<"A">>), JStr(<<"B", " ">>)>>],
      [type |-> "integer", enum |-> <<JInt(0), JInt(1), JInt(2)>>],
      [enum |-> <<JStr(<<"x">>), JBool(TRUE), JNone>>] }

\* property names: one character, two characters, and the empty name
EmitterKeys == {<<"a">>, <<"b", "A">>, <<>>}

\* property mappings of up to MaxFields properties, the keys distinct
EmitterProperties ==
    {ps \in SeqsUpTo([key : EmitterKeys, val : EmitterDescriptors], MaxFields) :
        \A n, m \in 1..Len(ps) : n # m => ps[n].key # ps[m].key}

\* required lists over the keys of ps: none, the first key, every key
RequiredChoices(ps) ==
    {<<>>, [n \in 1..Len(ps) |-> ps[n].key]}
    \cup (IF ps = <<>> THEN {} ELSE {<<ps[1].key>>})

EmitterSchemas ==
    UNION {{[type |-> "object", properties |-> ps, required |-> rq] :
               rq \in RequiredChoices(ps)} : ps \in EmitterProperties}

\* entity names: a DocType name holds letters, digits, spaces, hyphens and
\* underscores only, so no name contains the "/{name}" segment of an item path;
\* one name is a prefix of another
DoctypeNames == {<<"A">>, <<"B">>, <<"A", "B">>}

\* what the metadata provider may return for one entity
ProviderValues ==
    { JNone,
      [k |-> "dict", v |-> EmptyDict],
      [k |-> "list", v |-> <<JNone>>],
      [k |-> "dict", v |-> [docs |-> <<>>]],
      [k |-> "dict", v |-> [docs |-> <<EmptyDict>>]],
      DocsOf(<< MkField([fieldname |-> JStr(<<"a">>), fieldtype |-> JStr("Select"),
                         reqd |-> JInt(1), options |-> JStr(<<"A", "\n", "B">>)]),
                MkField([fieldname |-> JStr(<<"b">>), fieldtype |-> JStr("Section Break")]) >>),
      DocsOf(<< MkField([fieldname |-> JStr(<<"b">>), fieldtype |-> JStr("Link"),
                         options |-> JStr(<<"X">>), label |-> JNone]) >>) }

-----------------------------------------------------------------------------
(* OpenAPIGenerator.generate_openapi_spec, one step per statement that       *)
(* changes the document                                                     *)

EmptySpec == [components |-> [schemas |-> <<>>], paths |-> <<>>]

\* no mail is queued and no worker runs
EmailIdle ==
    /\ queue_status = "Not Sent"
    /\ recipient_status = <<>>
    /\ api_sends = <<>>
    /\ job = <<>>
    /\ overlap = FALSE

\* no browser session and no request
WebIdle ==
    /\ current_connection = JNone
    /\ session = <<>>
    /\ request = <<>>

Idle ==
    /\ EmailIdle
    /\ WebIdle
    /\ field = EmptyDict
    /\ property_def = EmptyDict
    /\ fields = <<>>
    /\ actual_fields = <<>>
    /\ schema = EmptyDict
    /\ doctype_metadata = JNone
    /\ ts_code = <<>>

\* an info block that carries the loop counter an earlier run left behind
InfoOf_Stamped(inf) ==
    [title |-> GetOr(inf, "title", "ERPNext API"),
     description |-> GetOr(inf, "description",
                           "Auto-generated OpenAPI specification for ERPNext"),
     version |-> IF i = 1 THEN "1.0.0" ELSE "1.0.1"]

\* lines 408-414
InfoOf(inf) ==
    [title |-> GetOr(inf, "title", "ERPNext API"),
     description |-> GetOr(inf, "description",
                           "Auto-generated OpenAPI specification for ERPNext"),
     version |-> GetOr(inf, "version", "1.0.0")]

\* lines 406-429: the document before the first entity is processed
InitialSpec(inf, cn) ==
    [openapi |-> "3.0.3",
     info |-> InfoOf(inf),
     servers |-> <<[url |-> IF Truthy(cn) THEN cn.v ELSE <<"http://127.0.0.1:8000">>,
                    description |-> "ERPNext Server"]>>,
     components |-> [securitySchemes |->
                        [ApiKeyAuth |-> [type |-> "apiKey", in |-> "header",
                                         name |-> "Authorization",
                                         description |-> "Use \"token api_key:api_secret\""]],
                     schemas |-> <<>>],
     security |-> <<[ApiKeyAuth |-> <<>>]>>,
     paths |-> <<>>]

Init ==
    /\ Idle
    /\ doctypes \in SeqsUpTo(DoctypeNames, MaxDoctypes)
    /\ provider \in [DoctypeNames -> ProviderValues]
    /\ info = EmptyDict
    /\ conn = JNone
    /\ first_spec = JNone
    /\ i = 1
    /\ spec = InitialSpec(info, conn)
    /\ pc = "loop"

\* lines 433-436 for the entity at position n: the schema, or the exception
SchemaOf(n) ==
    LET metadata == provider[doctypes[n]]
    IN  IF Truthy(metadata) THEN generate_doctype_schema(metadata) ELSE Returned(EmptyDict)

\* lines 431-436 when the entity is skipped: no metadata or an empty schema
SkipDoctype ==
    /\ pc = "loop" /\ i <= Len(doctypes)
    /\ ~SchemaOf(i).raised /\ DOMAIN SchemaOf(i).val = {}
    /\ i' = i + 1
    /\ UNCHANGED <<pc, spec, doctypes, provider, field, property_def, fields, actual_fields, schema, doctype_metadata, ts_code,
                   runVars, emailVars, webVars>>

\* lines 431-437: the schema is stored under the entity name
StoreSchema ==
    /\ pc = "loop" /\ i <= Len(doctypes)
    /\ ~SchemaOf(i).raised /\ DOMAIN SchemaOf(i).val # {}
    /\ spec' = [spec EXCEPT !.components.schemas = DictSet(@, doctypes[i], SchemaOf(i).val)]
    /\ pc' = "paths"
    /\ UNCHANGED <<i, doctypes, provider, field, property_def, fields, actual_fields, schema, doctype_metadata, ts_code,
                   runVars, emailVars, webVars>>

\* line 438
AddCrudPaths ==
    /\ pc = "paths"
    /\ spec' = _add_crud_paths(spec, doctypes[i])
    /\ i' = i + 1
    /\ pc' = "loop"
    /\ UNCHANGED <<doctypes, provider, field, property_def, fields, actual_fields, schema, doctype_metadata, ts_code,
                   runVars, emailVars, webVars>>

\* an exception of the mapper leaves generate_openapi_spec
SchemaRaises ==
    /\ pc = "loop" /\ i <= Len(doctypes)
    /\ SchemaOf(i).raised
    /\ pc' = "raised"
    /\ UNCHANGED <<i, spec, doctypes, provider, field, property_def, fields, actual_fields, schema, doctype_metadata, ts_code,
                   runVars, emailVars, webVars>>

\* line 440
ReturnSpec ==
    /\ pc = "loop" /\ i > Len(doctypes)
    /\ pc' = "done"
    /\ UNCHANGED <<i, spec, doctypes, provider, field, property_def, fields, actual_fields, schema, doctype_metadata, ts_code,
                   runVars, emailVars, webVars>>

Next == SkipDoctype \/ StoreSchema \/ AddCrudPaths \/ SchemaRaises \/ ReturnSpec

Spec == Init /\ [][Next]_vars

\* the loop of lines 431-438 over the list ds, as a function of its inputs
RECURSIVE RunLoop(_, _, _)
RunLoop(ds, prov, acc) ==
    IF ds = <<>> \/ acc.raised THEN acc
    ELSE LET metadata == prov[Head(ds)]
             r == IF Truthy(metadata) THEN generate_doctype_schema(metadata)
                  ELSE Returned(EmptyDict)
         IN  IF r.raised THEN [acc EXCEPT !.raised = TRUE]
             ELSE IF DOMAIN r.val = {} THEN RunLoop(Tail(ds), prov, acc)
             ELSE RunLoop(Tail(ds), prov,
                    Returned(_add_crud_paths(
                        [acc.val EXCEPT !.components.schemas = DictSet(@, Head(ds), r.val)],
                        Head(ds))))

\* lines 404-440
generate_openapi_spec(ds, prov, inf, cn) ==
    RunLoop(ds, prov, Returned(InitialSpec(inf, cn)))

\* the info overrides and the connection of a run
RunSettings ==
    { [info |-> EmptyDict, conn |-> JNone],
      [info |-> [title |-> "Shop API", version |-> "2.0"],
       conn |-> JStr(<<"https://erp.example.com">>)] }

\* what the provider returns in the repeated runs: nothing, an envelope-only
\* schema, a schema with fields, metadata on which the mapper raises
RunProviderValues ==
    { JNone,
      [k |-> "dict", v |-> [docs |-> <<EmptyDict>>]],
      DocsOf(<< MkField([fieldname |-> JStr(<<"a">>), fieldtype |-> JStr("Select"),
                         reqd |-> JInt(1), options |-> JStr(<<"A", "\n", "B">>)]) >>),
      DocsOf(<< MkField([fieldname |-> JStr(<<"b">>), fieldtype |-> JStr("Link"),
                         options |-> JStr(<<"X">>), label |-> JNone]) >>) }

\* a first run of generate_openapi_spec
InitRuns ==
    /\ Idle
    /\ doctypes \in SeqsUpTo(DoctypeNames, MaxDoctypes)
    /\ provider \in [DoctypeNames -> RunProviderValues]
    /\ \E st \in RunSettings : info = st.info /\ conn = st.conn
    /\ first_spec = JNone
    /\ i = 1
    /\ spec = InitialSpec(info, conn)
    /\ pc = "loop"

\* generate_openapi_spec is called again with the same list, the same info
\* and the same provider; the document of the first run is kept aside
Rerun ==
    /\ pc = "done" /\ first_spec = JNone
    /\ first_spec' = [k |-> "dict", v |-> spec]
    /\ spec' = InitialSpec(info, conn)
    /\ i' = 1
    /\ pc' = "loop"
    /\ UNCHANGED <<doctypes, provider, field, property_def, fields, actual_fields, schema,
                   doctype_metadata, ts_code, info, conn, emailVars, webVars>>

NextRuns == Next \/ Rerun

SpecRuns == InitRuns /\ [][NextRuns]_vars

-----------------------------------------------------------------------------
(* Properties of the composed document *)

\* the entity at position n produced a non-empty schema
HasSchema(n) == ~SchemaOf(n).raised /\ DOMAIN SchemaOf(n).val # {}

\* the positions whose entity has been processed completely and contributed
Contributed == {n \in 1..Len(doctypes) : n < i /\ HasSchema(n)}

OpsAt(path) == DOMAIN Lookup(spec.paths, path)

\* C1: each entity with a non-empty schema contributes exactly the collection
\* path with get and post, the item path with get, put and delete, and a
\* component under its name; the document holds no other path.
C1_PathSynthesis ==
    /\ \A n \in Contributed :
          /\ collection_path(doctypes[n]) \in Keys(spec.paths)
          /\ item_path(doctypes[n]) \in Keys(spec.paths)
          /\ collection_path(doctypes[n]) # item_path(doctypes[n])
          /\ OpsAt(collection_path(doctypes[n])) = {"get", "post"}
          /\ OpsAt(item_path(doctypes[n])) = {"get", "put", "delete"}
          /\ doctypes[n] \in Keys(spec.components.schemas)
    /\ Keys(spec.paths) = {collection_path(doctypes[n]) : n \in Contributed}
                          \cup {item_path(doctypes[n]) : n \in Contributed}
    /\ Len(spec.paths) = 2 * Cardinality({doctypes[n] : n \in Contributed})

C1_Witness ==
    /\ pc = "done"
    /\ Cardinality({doctypes[n] : n \in Contributed}) = 2
    /\ Len(spec.paths) = 4

\* the "$ref" strings of a body schema
RECURSIVE SchemaRefs(_)
SchemaRefs(s) ==
    IF "$ref" \in DOMAIN s THEN {s["$ref"]}
    ELSE (IF "items" \in DOMAIN s THEN SchemaRefs(s["items"]) ELSE {})
         \cup (IF "properties" \in DOMAIN s
               THEN UNION {SchemaRefs(s["properties"][p]) : p \in DOMAIN s["properties"]}
               ELSE {})

\* the body schemas an operation carries: its request body and its responses
BodySchemas(op) ==
    (IF "requestBody" \in DOMAIN op
     THEN {op["requestBody"]["content"]["application/json"]["schema"]} ELSE {})
    \cup {op["responses"][c]["content"]["application/json"]["schema"] :
             c \in {x \in DOMAIN op["responses"] : "content" \in DOMAIN op["responses"][x]}}
    \cup (IF "parameters" \in DOMAIN op
          THEN {op["parameters"][n]["schema"] : n \in 1..Len(op["parameters"])} ELSE {})

PathRefs ==
    UNION { UNION { UNION {SchemaRefs(b) : b \in BodySchemas(spec.paths[n].val[m])} :
                      m \in DOMAIN spec.paths[n].val } :
              n \in 1..Len(spec.paths) }

\* C2: at every point of the loop and in the returned document, every
\* "#/components/schemas/X" reference inside paths names a key X of
\* components.schemas.
C2_RefsResolve ==
    \A r \in PathRefs :
        \E x \in Keys(spec.components.schemas) : r = <<"#/components/schemas/">> \o x

C2_Witness == pc = "done" /\ Cardinality(PathRefs) = 2

\* the metadata of the entity at position n is absent, or carries no documents
IsSkipped(n) ==
    LET metadata == provider[doctypes[n]]
    IN  \/ ~Truthy(metadata)
        \/ metadata.k = "list"
        \/ "docs" \notin DOMAIN metadata.v
        \/ metadata.v["docs"] = <<>>

\* C3: an entity whose metadata is absent or whose schema comes back empty
\* adds no schema and no path and raises nothing (the loop goes on to the
\* next entity), and in the returned document every entity with a non-empty
\* schema has its component and both of its paths.
C3_SkipsSilently ==
    [][ /\ (pc = "loop" /\ i <= Len(doctypes) /\ IsSkipped(i))
            => (spec' = spec /\ pc' = "loop" /\ i' = i + 1)
        /\ (pc' = "done")
            => \A n \in 1..Len(doctypes) :
                  ~IsSkipped(n) =>
                      /\ doctypes[n] \in Keys(spec'.components.schemas)
                      /\ collection_path(doctypes[n]) \in Keys(spec'.paths)
                      /\ item_path(doctypes[n]) \in Keys(spec'.paths) ]_vars

\* a returned document of a list with a skipped entity between two that contribute
C3_Witness ==
    /\ pc = "done"
    /\ \E n \in 2..(Len(doctypes) - 1) :
          /\ IsSkipped(n)
          /\ doctypes[n] \notin Keys(spec.components.schemas)
          /\ doctypes[n - 1] \in Keys(spec.components.schemas)
          /\ doctypes[n + 1] \in Keys(spec.components.schemas)

HasNameParam(op) ==
    /\ "parameters" \in DOMAIN op
    /\ \E n \in 1..Len(op["parameters"]) :
          LET p == op["parameters"][n]
          IN  p["name"] = "name" /\ p["in"] = "path"
              /\ "required" \in DOMAIN p /\ p["required"]

\* the 200 response of op carries the body schema {data: $ref doctype}
DataRefResponse(op, doctype) ==
    /\ "200" \in DOMAIN op["responses"]
    /\ "content" \in DOMAIN op["responses"]["200"]
    /\ op["responses"]["200"]["content"]["application/json"]["schema"] = DataOf(Ref(doctype))

\* C4: on every item path get, put and delete declare the required path
\* parameter name, the 200 responses of get and of put carry {data: $ref
\* entity}, and delete answers 202 without a body schema.
C4_ItemOperations ==
    \A n \in Contributed :
        LET item == Lookup(spec.paths, item_path(doctypes[n]))
        IN  /\ \A m \in {"get", "put", "delete"} : HasNameParam(item[m])
            /\ DataRefResponse(item["get"], doctypes[n])
            /\ DataRefResponse(item["put"], doctypes[n])
            /\ DOMAIN item["delete"]["responses"] = {"202"}
            /\ "content" \notin DOMAIN item["delete"]["responses"]["202"]

-----------------------------------------------------------------------------
(* The mapper, the assembler and the detail view applied to one input *)

NoDocument ==
    /\ EmailIdle
    /\ WebIdle
    /\ info = EmptyDict
    /\ conn = JNone
    /\ first_spec = JNone
    /\ doctypes = <<>>
    /\ provider = EmptyDict
    /\ i = 0
    /\ spec = EmptySpec

InitMapper ==
    /\ field \in MapperFields
    /\ property_def = EmptyDict
    /\ fields = <<>>
    /\ actual_fields = <<>>
    /\ schema = EmptyDict
    /\ doctype_metadata = JNone
    /\ ts_code = <<>>
    /\ NoDocument
    /\ pc = "map"

\* a field list, as the detail view and the assembler receive it
InitFields ==
    /\ fields \in FieldLists
    /\ doctype_metadata = DocsOf(fields)
    /\ field = EmptyDict
    /\ property_def = EmptyDict
    /\ actual_fields = <<>>
    /\ schema = EmptyDict
    /\ ts_code = <<>>
    /\ NoDocument
    /\ pc = "fields"

\* metadata of another shape handed to generate_doctype_schema
InitMetadata ==
    /\ fields \in FieldLists
    /\ doctype_metadata \in OtherShapes(fields)
    /\ field = EmptyDict
    /\ property_def = EmptyDict
    /\ actual_fields = <<>>
    /\ schema = EmptyDict
    /\ ts_code = <<>>
    /\ NoDocument
    /\ pc = "metadata"

\* map_frappe_field_to_openapi(field) returns
MapField ==
    /\ pc = "map" /\ ~MapRaises(field)
    /\ property_def' = map_frappe_field_to_openapi(field)
    /\ pc' = "mapped"
    /\ UNCHANGED <<field, fields, actual_fields, schema, doctypes, provider, i, spec,
                   doctype_metadata, ts_code,
                   runVars, emailVars, webVars>>

\* map_frappe_field_to_openapi(field) raises
MapFieldRaises ==
    /\ pc = "map" /\ MapRaises(field)
    /\ pc' = "map_raised"
    /\ UNCHANGED <<field, property_def, fields, actual_fields, schema, doctypes, provider,
                   i, spec, doctype_metadata, ts_code,
                   runVars, emailVars, webVars>>

\* generate_doctype_schema(metadata): a schema, the empty schema, or an exception
GenerateDoctypeSchema ==
    /\ pc \in {"fields", "metadata"}
    /\ LET r == generate_doctype_schema(doctype_metadata)
       IN  \/ ~r.raised /\ DOMAIN r.val # {} /\ schema' = r.val /\ pc' = "schema"
           \/ ~r.raised /\ DOMAIN r.val = {} /\ schema' = r.val /\ pc' = "no_schema"
           \/ r.raised /\ schema' = schema /\ pc' = "schema_raised"
    /\ UNCHANGED <<field, property_def, fields, actual_fields, doctypes, provider, i, spec,
                   doctype_metadata, ts_code,
                   runVars, emailVars, webVars>>

\* frappe_fields_to_typescript_json_schema on the raw field list
FieldsToTsSchema ==
    /\ pc = "fields"
    /\ LET r == frappe_fields_to_typescript_json_schema(fields)
       IN  \/ ~r.raised /\ schema' = r.val /\ pc' = "ts_schema"
           \/ r.raised /\ schema' = schema /\ pc' = "ts_raised"
    /\ UNCHANGED <<field, property_def, fields, actual_fields, doctypes, provider, i, spec,
                   doctype_metadata, ts_code,
                   runVars, emailVars, webVars>>

\* doctype_detail, lines 803-841: the filter, the schema of the filtered list
\* and its interface text (the names of the filtered fields are non-empty, so
\* line 247 cannot raise here)
DoctypeDetail ==
    /\ pc = "fields"
    /\ actual_fields' = ActualFields(fields)
    /\ LET r == frappe_fields_to_typescript_json_schema(ActualFields(fields))
       IN  \/ /\ ~r.raised
              /\ schema' = r.val
              /\ ts_code' = json_schema_to_typescript_interface(
                                r.val, DetailDoctypeName \o <<"Schema">>)
              /\ pc' = "detail"
           \/ r.raised /\ schema' = schema /\ ts_code' = ts_code /\ pc' = "detail_raised"
    /\ UNCHANGED <<field, property_def, fields, doctypes, provider, i, spec, doctype_metadata,
                   runVars, emailVars, webVars>>

\* a schema handed to json_schema_to_typescript_interface
InitEmitter ==
    /\ schema \in EmitterSchemas
    /\ fields = <<>>
    /\ doctype_metadata = JNone
    /\ field = EmptyDict
    /\ property_def = EmptyDict
    /\ actual_fields = <<>>
    /\ ts_code = <<>>
    /\ NoDocument
    /\ pc = "emit"

\* json_schema_to_typescript_interface(schema) returns, the interface name
\* being the default of line 216
EmitInterface ==
    /\ pc = "emit" /\ ~EmitRaises(schema)
    /\ ts_code' = json_schema_to_typescript_interface(schema, <<"DocTypeSchema">>)
    /\ pc' = "emitted"
    /\ UNCHANGED <<field, property_def, fields, actual_fields, schema, doctypes, provider,
                   i, spec, doctype_metadata, runVars, emailVars, webVars>>

\* json_schema_to_typescript_interface(schema) raises IndexError at line 247
EmitInterfaceRaises ==
    /\ pc = "emit" /\ EmitRaises(schema)
    /\ pc' = "emit_raised"
    /\ UNCHANGED <<field, property_def, fields, actual_fields, schema, doctypes, provider,
                   i, spec, doctype_metadata, ts_code, runVars, emailVars, webVars>>

NextFields ==
    \/ MapField \/ MapFieldRaises \/ GenerateDoctypeSchema \/ FieldsToTsSchema
    \/ DoctypeDetail \/ EmitInterface \/ EmitInterfaceRaises

InitCore == InitMapper \/ InitFields \/ InitMetadata \/ InitEmitter

SpecFields == InitCore /\ [][NextFields]_vars

-----------------------------------------------------------------------------
(* Properties of the schemas *)

Range(q) == {q[n] : n \in 1..Len(q)}

\* the positions of the fields that became properties
Mapped == {n \in 1..Len(fields) : ~SchemaSkips(fields[n])}

\* the position of the field that defines the property key: the last one of that name
Defining(key) ==
    CHOOSE n \in Mapped :
        /\ fields[n]["fieldname"].v = key
        /\ \A m \in Mapped : fields[m]["fieldname"].v = key => m <= n

FieldKeys == {fields[n]["fieldname"].v : n \in Mapped}

\* the original statement of C5: a name is required iff the field that
\* defines its property has a truthy reqd flag
C5_RequiredIffDefiningReqd ==
    pc \in {"schema", "ts_schema"} =>
        /\ \A key \in FieldKeys :
              key \in Range(schema["required"])
                  <=> Truthy(Get(fields[Defining(key)], "reqd"))
        /\ Range(schema["required"]) \subseteq Keys(schema["properties"])

\* C5 (amended): a fieldname is listed in required if and only if some mapped
\* source field of that name has a truthy reqd flag, and every name listed in
\* required is a key of the property mapping.
C5_RequiredIffSomeReqd ==
    pc \in {"schema", "ts_schema"} =>
        /\ \A key \in Keys(schema["properties"]) \cup Range(schema["required"]) :
              key \in Range(schema["required"])
                  <=> \E n \in Mapped : /\ fields[n]["fieldname"].v = key
                                        /\ Truthy(Get(fields[n], "reqd"))
        /\ Range(schema["required"]) \subseteq Keys(schema["properties"])

\* two fields of one name, the first required and the second not
C5_Witness ==
    /\ pc = "schema"
    /\ Len(fields) = 2 /\ Mapped = {1, 2}
    /\ fields[1]["fieldname"] = fields[2]["fieldname"]
    /\ Truthy(Get(fields[1], "reqd")) /\ ~Truthy(Get(fields[2], "reqd"))
    /\ schema["required"] = <<fields[1]["fieldname"].v>>

\* the fields the normalizer keeps
IsNormalized(f) ==
    /\ "fieldname" \in DOMAIN f /\ f["fieldname"].k = "str" /\ f["fieldname"].v # <<>>
    /\ ~("fieldtype" \in DOMAIN f /\ f["fieldtype"].k = "str"
         /\ f["fieldtype"].v \in {"Section Break", "Column Break", "HTML", "Tab Break"})

Kept == {n \in 1..Len(fields) : IsNormalized(fields[n])}

\* the k-th smallest position of Kept
KeptAt(k) == CHOOSE n \in Kept : Cardinality({m \in Kept : m <= n}) = k

\* C6: the list the detail view uses is exactly the subsequence of the fields
\* with a non-empty fieldname and a fieldtype other than Section Break,
\* Column Break, HTML and Tab Break, in the original order (and the view does
\* not fail on an empty list).
C6_DetailFilter ==
    /\ pc \in {"detail", "detail_raised"} =>
          /\ Len(actual_fields) = Cardinality(Kept)
          /\ \A k \in 1..Len(actual_fields) : actual_fields[k] = fields[KeptAt(k)]
    /\ fields = <<>> => pc # "detail_raised"

C6_Witness ==
    /\ pc = "detail"
    /\ Len(fields) = 2 /\ Len(actual_fields) = 1
    /\ Truthy(Get(fields[1], "fieldname")) /\ Get(fields[1], "fieldtype") = JStr("Tab Break")
    /\ actual_fields[1] = fields[2]

EnvelopeKeys ==
    {<<"name">>, <<"owner">>, <<"creation">>, <<"modified">>, <<"modified_by">>,
     <<"docstatus">>, <<"doctype">>}

\* C7: the schema generate_doctype_schema builds maps only normalized fields:
\* every property is an envelope property or comes from a normalized field, and
\* every required name comes from a normalized field; a Section Break, Column
\* Break, HTML or Tab Break field never becomes a property.
C7_OnlyNormalizedFields ==
    pc = "schema" =>
        /\ Keys(schema["properties"])
              \subseteq EnvelopeKeys \cup {fields[n]["fieldname"].v : n \in Kept}
        /\ Range(schema["required"]) \subseteq {fields[n]["fieldname"].v : n \in Kept}

-----------------------------------------------------------------------------
(* Properties of the mapper *)

IsSelectWithOptions(f) ==
    /\ "fieldtype" \in DOMAIN f /\ f["fieldtype"] = JStr("Select")
    /\ "options" \in DOMAIN f /\ f["options"].k = "str" /\ f["options"].v # <<>>

Blank == {" ", "\t", "\r", "\n"}

\* the positions of s that hold the first non-blank character of a line
LineStarts(s) ==
    {n \in 1..Len(s) :
        /\ s[n] \notin Blank
        /\ \A q \in 1..(n - 1) :
              s[q] \notin Blank => \E r \in (q + 1)..(n - 1) : s[r] = "\n"}

\* the position of the last non-blank character of the line that holds n
LineEnd(s, n) ==
    CHOOSE e \in n..Len(s) :
        /\ s[e] \notin Blank
        /\ \A r \in n..e : s[r] # "\n"
        /\ \A q \in (e + 1)..Len(s) :
              s[q] \notin Blank => \E r \in (e + 1)..q : s[r] = "\n"

StartAt(s, k) ==
    CHOOSE n \in LineStarts(s) : Cardinality({m \in LineStarts(s) : m <= n}) = k

\* the trimmed, non-empty option lines of s, in order
OptionLines(s) ==
    [k \in 1..Cardinality(LineStarts(s)) |->
        JStr(SubSeq(s, StartAt(s, k), LineEnd(s, StartAt(s, k))))]

\* C8: a Select field with a non-empty options string maps to type string
\* whose enum lists the option lines, each trimmed, the empty ones dropped, in
\* the original order; when no line remains the descriptor has no enum.
C8_SelectEnum ==
    (pc \in {"mapped", "map_raised"} /\ IsSelectWithOptions(field)) =>
        /\ pc = "mapped"
        /\ property_def["type"] = "string"
        /\ IF OptionLines(field["options"].v) = <<>>
           THEN "enum" \notin DOMAIN property_def
           ELSE /\ "enum" \in DOMAIN property_def
                /\ property_def["enum"] = OptionLines(field["options"].v)

C8_Witness ==
    /\ pc = "mapped" /\ IsSelectWithOptions(field)
    /\ field["options"].v = <<"A", "\n", "B">>
    /\ property_def["enum"] = <<JStr(<<"A">>), JStr(<<"B">>)>>

TableKeys ==
    {"Data", "Small Text", "Long Text", "Text Editor", "Text", "Code", "Int", "Float",
     "Currency", "Percent", "Check", "Select", "Link", "Date", "Datetime", "Time",
     "Password", "Attach", "Attach Image", "Table", "JSON", "HTML", "Signature",
     "Color", "Barcode", "Geolocation"}

\* the field names a fieldtype that is no key of the type table
HasUnknownType(f) ==
    "fieldtype" \in DOMAIN f /\ ~(f["fieldtype"].k = "str" /\ f["fieldtype"].v \in TableKeys)

\* C9: a field whose fieldtype is no key of the type table is never rejected
\* and maps to type string without enum, format, pattern, maxLength or
\* writeOnly.
C9_UnknownTypeIsString ==
    (pc \in {"mapped", "map_raised"} /\ HasUnknownType(field)) =>
        /\ pc = "mapped"
        /\ property_def["type"] = "string"
        /\ DOMAIN property_def
              \cap {"enum", "format", "pattern", "maxLength", "writeOnly"} = {}

C9_Witness ==
    /\ pc = "mapped"
    /\ Get(field, "fieldtype") = JStr("Frobnicate")
    /\ Truthy(Get(field, "options"))
    /\ DOMAIN property_def = {"description", "type"}

\* the Python type of an enum member matches the descriptor's type
MemberHasType(x, type) ==
    CASE type = "string"  -> x.k = "str"
      [] type = "integer" -> x.k = "int"
      [] type = "number"  -> x.k \in {"int", "float"}
      [] type = "boolean" -> x.k = "bool"
      [] OTHER -> FALSE

WellTyped(d) ==
    /\ "type" \in DOMAIN d
    /\ d["type"] \in {"string", "integer", "number", "boolean", "array", "object"}
    /\ "enum" \in DOMAIN d =>
          /\ d["enum"] # <<>>
          /\ \A n \in 1..Len(d["enum"]) : MemberHasType(d["enum"][n], d["type"])

\* C10: every descriptor the mapper returns and every property of every
\* schema generate_doctype_schema returns has a type of the fixed set, and an
\* enum, when present, is non-empty with members of the descriptor's type.
C10_WellTyped ==
    /\ pc = "mapped" => WellTyped(property_def)
    /\ pc = "schema" =>
          \A n \in 1..Len(schema["properties"]) : WellTyped(schema["properties"][n].val)

C10_Witness ==
    /\ pc = "schema"
    /\ \E n \in 1..Len(schema["properties"]) :
          /\ schema["properties"][n].key \notin EnvelopeKeys
          /\ "enum" \in DOMAIN schema["properties"][n].val
          /\ schema["properties"][n].val["type"] = "string"

\* C11: the mapper returns a descriptor and raises nothing, whatever label,
\* fieldname, options, default, reqd, read_only and fieldtype the field has.
C11_MapperNeverRaises == pc # "map_raised"

IsLinkWithOptionString(f) ==
    /\ "fieldtype" \in DOMAIN f /\ f["fieldtype"] = JStr("Link")
    /\ "options" \in DOMAIN f /\ f["options"].k = "str" /\ f["options"].v # <<>>

\* the label when the field has one, otherwise the fieldname, otherwise ""
LabelOrName(f) ==
    IF "label" \in DOMAIN f THEN f["label"]
    ELSE IF "fieldname" \in DOMAIN f THEN f["fieldname"]
    ELSE JStr(<<>>)

\* C12: the description is the label when present, otherwise the fieldname,
\* otherwise the empty string; a Link field with non-empty options gets
\* " (Links to <options>)" appended, and no other field gets anything appended.
C12_Description ==
    pc \in {"mapped", "map_raised"} =>
        /\ pc = "mapped"
        /\ property_def["description"] =
              IF IsLinkWithOptionString(field)
              THEN JStr(LabelOrName(field).v \o <<" (Links to ">> \o field["options"].v \o <<")">>)
              ELSE LabelOrName(field)

FalsyValues == {JNone, JInt(0), JStr(<<>>), JBool(FALSE)}

HasTruthyDefault(f) == "default" \in DOMAIN f /\ f["default"] \notin FalsyValues

HasTruthyReadOnly(f) == "read_only" \in DOMAIN f /\ f["read_only"] \notin FalsyValues

Without(f, key) == [x \in DOMAIN f \ {key} |-> f[x]]

\* C13: the descriptor carries default exactly when the field's default is
\* present and truthy, and then the same value; a field with a falsy default
\* maps to the descriptor of the same field without default; readOnly is TRUE
\* exactly when read_only is truthy and is absent otherwise.
C13_DefaultAndReadOnly ==
    pc = "mapped" =>
        /\ "default" \in DOMAIN property_def <=> HasTruthyDefault(field)
        /\ HasTruthyDefault(field) => property_def["default"] = field["default"]
        /\ ("default" \in DOMAIN field /\ ~HasTruthyDefault(field)) =>
              property_def = map_frappe_field_to_openapi(Without(field, "default"))
        /\ "readOnly" \in DOMAIN property_def <=> HasTruthyReadOnly(field)
        /\ "readOnly" \in DOMAIN property_def => property_def["readOnly"] = TRUE

C13_Witness ==
    /\ pc = "mapped"
    /\ Get(field, "default") = JInt(0) /\ "default" \in DOMAIN field
    /\ "default" \notin DOMAIN property_def
    /\ Get(field, "read_only") = JInt(1)
    /\ property_def["readOnly"] = TRUE


-----------------------------------------------------------------------------
(* Properties of the metadata shapes *)

\* generate_doctype_schema has returned or raised
SchemaDone == pc \in {"schema", "no_schema", "schema_raised"}

\* the metadata carries no extractable field list
NoFieldList(m) ==
    \/ m.k = "list"
    \/ "docs" \notin DOMAIN m.v
    \/ m.v["docs"] = <<>>
    \/ "fields" \notin DOMAIN m.v["docs"][1]

\* C14: whenever the metadata carries no extractable field list (a list, a
\* missing or empty documents list, a first document without a fields list),
\* generate_doctype_schema returns the empty schema {} and raises nothing.
C14_NoFieldListIsEmpty ==
    (SchemaDone /\ NoFieldList(doctype_metadata)) =>
        (pc = "no_schema" /\ schema = EmptyDict)

\* C15: the schema assembled from the bare shape {"fields": F}, and from an
\* envelope of several documents whose first one holds F, is the schema
\* assembled from the one-element envelope {"docs": [{"fields": F}]}.
C15_ShapesAgree ==
    (SchemaDone /\ doctype_metadata \in {BareOf(fields), MultiDocsOf(fields)}) =>
        LET r == generate_doctype_schema(DocsOf(fields))
        IN  IF r.raised THEN pc = "schema_raised"
            ELSE pc # "schema_raised" /\ schema = r.val


-----------------------------------------------------------------------------
(* Properties of the property mapping *)

\* C16: every non-empty schema generate_doctype_schema returns holds the seven
\* envelope keys; an envelope key no mapped field uses keeps its fixed
\* read-only descriptor, one that mapped fields use carries the descriptor of
\* the last such field in input order; a name collision raises nothing (the
\* assembler raises only where the mapper raises on a mapped field).
C16_EnvelopeLastWriteWins ==
    /\ pc = "schema" =>
          \A key \in EnvelopeKeys :
              /\ key \in Keys(schema["properties"])
              /\ Lookup(schema["properties"], key) =
                    IF key \in FieldKeys
                    THEN map_frappe_field_to_openapi(fields[Defining(key)])
                    ELSE Lookup(Envelope, key)
              /\ key \notin FieldKeys =>
                    Lookup(schema["properties"], key)["readOnly"] = TRUE
    /\ pc = "schema_raised" => \E n \in Mapped : MapRaises(fields[n])

\* two mapped fields named like an envelope key, with different descriptors
C16_Witness ==
    /\ pc = "schema"
    /\ \E n, m \in Mapped :
          /\ n < m
          /\ fields[n]["fieldname"].v = <<"name">>
          /\ fields[m]["fieldname"].v = <<"name">>
          /\ map_frappe_field_to_openapi(fields[n]) # map_frappe_field_to_openapi(fields[m])
          /\ map_frappe_field_to_openapi(fields[m]) # Lookup(Envelope, <<"name">>)


\* the normalized fields whose fieldname repeats an envelope key or the
\* fieldname of an earlier normalized field
Collisions ==
    {n \in Kept :
        \/ fields[n]["fieldname"].v \in EnvelopeKeys
        \/ \E m \in Kept : m < n /\ fields[m]["fieldname"].v = fields[n]["fieldname"].v}

\* C17: the number of properties of the schema generate_doctype_schema returns
\* is the number of normalized fields plus 7, minus the number of normalized
\* fields whose fieldname repeats an envelope key or an earlier fieldname.
C17_PropertyCount ==
    pc = "schema" =>
        Len(schema["properties"]) = Cardinality(Kept) + 7 - Cardinality(Collisions)


\* the position of a key in the iteration order of the property mapping
Pos(key) == CHOOSE n \in 1..Len(schema["properties"]) : schema["properties"][n].key = key

\* the position of the first mapped field of that name
First(key) ==
    CHOOSE n \in Mapped :
        /\ fields[n]["fieldname"].v = key
        /\ \A m \in Mapped : fields[m]["fieldname"].v = key => n <= m

\* the original statement of C18: whenever a mapped field precedes another
\* mapped field of a different name in the input, its key precedes the other
\* one's key in the mapping, also when one of them is named like an envelope
\* property
C18_InputOrder ==
    pc \in {"schema", "ts_schema"} =>
        \A n, m \in Mapped :
            (n < m /\ fields[n]["fieldname"].v # fields[m]["fieldname"].v) =>
                Pos(fields[n]["fieldname"].v) < Pos(fields[m]["fieldname"].v)

\* the fixed order of the envelope keys
EnvelopeOrder ==
    <<<<"name">>, <<"owner">>, <<"creation">>, <<"modified">>, <<"modified_by">>,
      <<"docstatus">>, <<"doctype">>>>

\* C18 (amended): the seven envelope keys come first, in their fixed order,
\* also when a dynamic field overwrites one of them; the other keys follow in
\* the order of the first mapped field of each name.
C18_FirstOccurrenceOrder ==
    pc \in {"schema", "ts_schema"} =>
        LET properties == schema["properties"]
            base == IF pc = "schema" THEN EnvelopeOrder ELSE <<>>
        IN  /\ Len(properties) >= Len(base)
            /\ \A n \in 1..Len(base) : properties[n].key = base[n]
            /\ \A n \in (Len(base) + 1)..Len(properties) :
                  properties[n].key \in FieldKeys \ Range(base)
            /\ \A n, m \in (Len(base) + 1)..Len(properties) :
                  n < m => First(properties[n].key) < First(properties[m].key)

\* a field with a name of its own precedes a field named like an envelope key
C18_Witness ==
    /\ pc = "schema"
    /\ \E n, m \in Mapped :
          /\ n < m
          /\ fields[n]["fieldname"].v \notin EnvelopeKeys
          /\ fields[m]["fieldname"].v \in EnvelopeKeys
          /\ Pos(fields[m]["fieldname"].v) < Pos(fields[n]["fieldname"].v)


-----------------------------------------------------------------------------
(* Properties of the interface text *)

\* the k-th smallest member of a set of positions
Kth(S, k) == CHOOSE n \in S : Cardinality({m \in S : m <= n}) = k

\* the pieces of a text between the separators at the positions S, each
\* separator w tokens wide
Piece(text, S, w, k) ==
    SubSeq(text,
           IF k = 1 THEN 1 ELSE Kth(S, k - 1) + w,
           IF k = Cardinality(S) + 1 THEN Len(text) ELSE Kth(S, k) - 1)

\* the positions where a blank line separates two blocks of the text
BlankAt == {n \in 1..(Len(ts_code) - 1) : ts_code[n] = "\n" /\ ts_code[n + 1] = "\n"}

Block(k) == Piece(ts_code, BlankAt, 2, k)

\* the positions of the properties that carry an enum
EnumProps == {n \in 1..Len(schema["properties"]) : "enum" \in DOMAIN schema["properties"][n].val}

\* b is a one-line enum declaration named after the property key
IsEnumBlockOf(b, key) ==
    /\ Len(b) >= Len(key) + 4
    /\ SubSeq(b, 1, Len(key) + 3) = <<"export enum ">> \o EnumName(key) \o <<" { ">>
    /\ b[Len(b)] = " }"
    /\ "\n" \notin Range(b)

IsInterfaceBlock(b) ==
    /\ Len(b) >= 2
    /\ b[1] = "export interface "
    /\ b[Len(b)] = "}"
    /\ "export enum " \notin Range(b)

\* C19: the text consists of one enum declaration block per property that
\* carries an enum, in the order the properties are visited and without
\* deduplicating equal enum names, followed by exactly one interface block,
\* consecutive blocks separated by one blank line; with no enum-carrying
\* property the text is exactly the interface block.
C19_EnumBlocksThenInterface ==
    pc = "detail" =>
        LET E == Cardinality(EnumProps)
        IN  /\ Cardinality(BlankAt) = E
            /\ \A n \in BlankAt : n + 1 \notin BlankAt
            /\ \A k \in 1..E :
                  IsEnumBlockOf(Block(k), schema["properties"][Kth(EnumProps, k)].key)
            /\ IsInterfaceBlock(Block(E + 1))
            /\ E = 0 => (ts_code = Block(1) /\ "\n" # ts_code[1])

\* two enum properties whose enum names coincide: both declarations are there
C19_Witness ==
    /\ pc = "detail"
    /\ Cardinality(EnumProps) = 2
    /\ \E n, m \in EnumProps :
          /\ n < m
          /\ EnumName(schema["properties"][n].key) = EnumName(schema["properties"][m].key)
    /\ Cardinality(BlankAt) = 2

\* the positions of the newlines of a block
NewlineAt(b) == {n \in 1..Len(b) : b[n] = "\n"}

LineOf(b, j) == Piece(b, NewlineAt(b), 1, j)

\* C20: the interface block has exactly one line per property of the mapping,
\* in mapping order, between its opening and its closing line, and the line of
\* property p carries the optional marker '?' if and only if p is not in the
\* schema's required list.
C20_OneLinePerProperty ==
    pc = "detail" =>
        LET b == Block(Cardinality(BlankAt) + 1)
            properties == schema["properties"]
        IN  /\ Cardinality(NewlineAt(b)) = Len(properties) + 1
            /\ \A n \in 1..Len(properties) :
                  LET l == LineOf(b, n + 1)
                      key == properties[n].key
                  IN  /\ Len(l) >= Len(key) + 4
                      /\ l[Len(l)] = ";"
                      /\ IF key \in Range(schema["required"])
                         THEN SubSeq(l, 1, Len(key) + 2) = <<"  ">> \o key \o <<": ">>
                         ELSE SubSeq(l, 1, Len(key) + 3) = <<"  ">> \o key \o <<"?", ": ">>

\* two properties, one required and one optional
C20_Witness ==
    /\ pc = "detail"
    /\ Len(schema["properties"]) = 2
    /\ schema["properties"][1].key \in Range(schema["required"])
    /\ schema["properties"][2].key \notin Range(schema["required"])
    /\ "?" \in Range(ts_code)


-----------------------------------------------------------------------------
(* Properties of the enum declarations and the type tokens *)

\* json_schema_to_typescript_interface has returned
Emitted == pc \in {"detail", "emitted"}

\* the first character of a name, upper-cased
Capitalized(tok) ==
    CASE tok \in {"a", "A"} -> "A"
      [] tok \in {"b", "B"} -> "B"
      [] tok \in {"name", "Name"} -> "Name"
      [] OTHER -> tok

\* a member of an enum as a literal: strings in single quotes, the others bare
Literal(x) ==
    CASE x.k = "str"  -> <<"'">> \o x.v \o <<"'">>
      [] x.k = "int"  -> <<ToString(x.v)>>
      [] x.k = "bool" -> IF x.v THEN <<"True">> ELSE <<"False">>
      [] x.k = "none" -> <<"None">>

\* the members in their original order, separated by commas
RECURSIVE Members(_)
Members(q) ==
    IF q = <<>> THEN <<>>
    ELSE Literal(Head(q)) \o (IF Len(q) > 1 THEN <<", ">> ELSE <<>>) \o Members(Tail(q))

InterfaceBlock == Block(Cardinality(BlankAt) + 1)

\* the last n tokens of a line
Suffix(l, n) == SubSeq(l, Len(l) - n + 1, Len(l))

\* C21: for every property that carries an enum, the declaration is named by
\* upper-casing the first character of the property name, leaving the rest
\* unchanged and appending 'Enum'; its members appear in the enum's original
\* order, strings in single quotes and the others as bare literals; and the
\* property's line uses that enum name as its type token.
C21_EnumDeclaration ==
    Emitted =>
        \A k \in 1..Cardinality(EnumProps) :
            LET n == Kth(EnumProps, k)
                key == schema["properties"][n].key
                name == <<Capitalized(key[1])>> \o Tail(key) \o <<"Enum">>
                l == LineOf(InterfaceBlock, n + 1)
            IN  /\ Block(k) = <<"export enum ">> \o name \o <<" { ">>
                               \o Members(schema["properties"][n].val["enum"]) \o <<" }">>
                /\ Len(l) >= Len(name) + 2
                /\ Suffix(l, Len(name) + 2) = <<": ">> \o name \o <<";">>

\* a two-character name whose enum has string and non-string members
C21_Witness ==
    /\ pc = "emitted"
    /\ \E n \in EnumProps :
          /\ schema["properties"][n].key = <<"b", "A">>
          /\ schema["properties"][n].val["enum"] = <<JStr(<<"x">>), JBool(TRUE), JNone>>
    /\ Block(1) = <<"export enum ", "B", "A", "Enum", " { ", "'", "x", "'", ", ",
                     "True", ", ", "None", " }">>

\* the type token the claim gives for a descriptor without enum
TokenOf(d) ==
    CASE d["type"] = "string"  -> <<"string">>
      [] d["type"] \in {"integer", "number"} -> <<"number">>
      [] d["type"] = "boolean" -> <<"boolean">>
      [] d["type"] = "object"  -> <<"Record<string, any>">>
      [] d["type"] = "array"   ->
            IF "items" \in DOMAIN d /\ "type" \in DOMAIN d["items"]
            THEN IF d["items"]["type"] = "object"
                 THEN <<"Record<string, any>", "[]">>
                 ELSE <<d["items"]["type"], "[]">>
            ELSE <<"any", "[]">>

ListedTypes == {"string", "integer", "number", "boolean", "object", "array"}

\* C22: a property without enum gets the token 'string' for string, 'number'
\* for integer and number, 'boolean' for boolean, 'Record<string, any>' for
\* object and '<item>[]' for array; every descriptor of the field mapper has
\* an enum or one of these types, so no property the mapper produced is
\* emitted with the bare token 'any'.
C22_TypeTokens ==
    /\ Emitted =>
          \A n \in 1..Len(schema["properties"]) \ EnumProps :
              LET d == schema["properties"][n].val
                  l == LineOf(InterfaceBlock, n + 1)
              IN  ("type" \in DOMAIN d /\ d["type"] \in ListedTypes) =>
                      /\ Len(l) >= Len(TokenOf(d)) + 2
                      /\ Suffix(l, Len(TokenOf(d)) + 2) = <<": ">> \o TokenOf(d) \o <<";">>
    /\ pc = "mapped" =>
          \/ "enum" \in DOMAIN property_def
          \/ "type" \in DOMAIN property_def /\ property_def["type"] \in ListedTypes
    /\ pc = "detail" =>
          \A n \in 1..Len(schema["properties"]) :
              Suffix(LineOf(InterfaceBlock, n + 1), 3) # <<": ", "any", ";">>

\* an array without item type next to an array of strings
C22_Witness ==
    /\ pc = "emitted"
    /\ Len(schema["properties"]) = 2
    /\ schema["properties"][1].val = [type |-> "array"]
    /\ schema["properties"][2].val = [type |-> "array", items |-> [type |-> "string"]]
    /\ Suffix(LineOf(InterfaceBlock, 2), 4) = <<": ", "any", "[]", ";">>
    /\ Suffix(LineOf(InterfaceBlock, 3), 4) = <<": ", "string", "[]", ";">>


-----------------------------------------------------------------------------
(* Properties of repeated and reordered runs *)

Distinct(q) == \A n, m \in 1..Len(q) : n # m => q[n] # q[m]

\* the orders in which a list of distinct names can be processed
Orders(q) == {p \in [1..Len(q) -> Range(q)] : Range(p) = Range(q)}

\* a key-ordered dict as a key-to-value mapping
AsMapping(d) == [key \in Keys(d) |-> Lookup(d, key)]

\* the schema key and the two path keys of an entity
OwnPaths(doctype) ==
    {<<"/api/resource/">> \o doctype, <<"/api/resource/">> \o doctype \o <<"/{name}">>}

\* a step of the loop leaves every key of another entity as it was
WritesOwnKeysOnly(before, after, own) ==
    \A key \in (Keys(before) \cup Keys(after)) \ own :
        /\ key \in Keys(before) /\ key \in Keys(after)
        /\ Lookup(before, key) = Lookup(after, key)

\* a step of the loop on the entity at position i
InsertsOwnKeys ==
    (pc \in {"loop", "paths"} /\ i <= Len(doctypes)) =>
        /\ WritesOwnKeysOnly(spec.components.schemas, spec'.components.schemas,
                             {doctypes[i]})
        /\ WritesOwnKeysOnly(spec.paths, spec'.paths, OwnPaths(doctypes[i]))

\* C24: for a list of distinct entity names, processing the entities in any
\* other order (a permutation of the list, which is also what workers that
\* insert one at a time under mutual exclusion amount to) gives the same
\* components.schemas and paths as key-to-value mappings; each entity's
\* insertion writes only its own schema key and its own two path keys.
C24_OrderIndependent ==
    /\ [](pc = "done" /\ Distinct(doctypes) =>
            \A q \in Orders(doctypes) :
                LET r == generate_openapi_spec(q, provider, info, conn)
                IN  /\ ~r.raised
                    /\ AsMapping(r.val.components.schemas)
                          = AsMapping(spec.components.schemas)
                    /\ AsMapping(r.val.paths) = AsMapping(spec.paths))
    /\ [][InsertsOwnKeys]_vars

\* three distinct entities, at least two of which contributed
C24_Witness ==
    /\ pc = "done"
    /\ Distinct(doctypes)
    /\ Len(doctypes) = 3
    /\ Len(spec.components.schemas) >= 2
    /\ Len(spec.paths) >= 4


-----------------------------------------------------------------------------
(* src/documentation/code/email_queue.py: one Email Queue document in Gmail *)
(* mode, its background job and a direct send() call.  Every statement that *)
(* reads or writes the database, and the Gmail API call, is a step of its   *)
(* own; frappe's get_doc and reload read the committed rows, update_status  *)
(* and db_set write them.                                                   *)

MaxRecipients == 2

\* the callers of send(): the background job enqueued by after_insert
\* (send_email_via_gmail) and a direct send() call (a flush or a retry)
Workers == {"job", "call"}

\* a local variable that no statement has bound yet
Unbound == [k |-> "unbound"]

\* a worker that has not started
IdleWorker ==
    [pc |-> "idle", status |-> "", recipients |-> <<>>, n |-> 0,
     sent_to_at_least_one |-> Unbound, success |-> "none"]

\* frappe's EmailQueueRecipient.is_mail_sent, called at line 158
IsMailSent_Never(status) == FALSE

IsMailSent(status) == status = "Sent"

\* a row status that never changes
StatusAfterFailure_Sending(sent_to_at_least_one) == "Sending"

\* line 190
StatusAfterFailure(sent_to_at_least_one) ==
    IF sent_to_at_least_one.v THEN "Partially Sent" ELSE "Error"

\* lines 209-217
StatusAfterSend(recipients) ==
    LET sent == Cardinality({n \in 1..Len(recipients) : recipients[n] = "Sent"})
        total == Len(recipients)
    IN  IF sent = total THEN "Sent"
        ELSE IF sent > 0 THEN "Partially Sent"
        ELSE "Error"

\* the document after insert: every recipient row Not Sent, nothing sent
EmailStart ==
    /\ queue_status = "Not Sent"
    /\ \E total \in 1..MaxRecipients :
          /\ recipient_status = [n \in 1..total |-> "Not Sent"]
          /\ api_sends = [n \in 1..total |-> 0]
    /\ job = [w \in Workers |-> IdleWorker]
    /\ WebIdle
    /\ field = EmptyDict
    /\ property_def = EmptyDict
    /\ fields = <<>>
    /\ actual_fields = <<>>
    /\ schema = EmptyDict
    /\ doctype_metadata = JNone
    /\ ts_code = <<>>
    /\ info = EmptyDict
    /\ conn = JNone
    /\ first_spec = JNone
    /\ doctypes = <<>>
    /\ provider = EmptyDict
    /\ i = 0
    /\ spec = EmptySpec
    /\ pc = "email"

\* the workers may run at the same time
InitEmail == EmailStart /\ overlap = TRUE

\* the calls do not overlap
InitEmailSeq == EmailStart /\ overlap = FALSE

generatorVars == <<pc, field, property_def, fields, actual_fields, schema,
                   doctypes, provider, i, spec, doctype_metadata, ts_code>>

Running(w) == job[w].pc \notin {"idle", "done"}

\* the worker starts: the job at line 19, the call at line 127
Start(w) ==
    /\ job[w].pc = "idle"
    /\ overlap \/ \A v \in Workers \ {w} : ~Running(v)
    /\ job' = [job EXCEPT ![w].pc = IF w = "job" THEN "get_doc" ELSE "send"]
    /\ UNCHANGED <<queue_status, recipient_status, api_sends, overlap,
                   generatorVars, runVars, webVars>>

\* line 23: the job loads the document
GetDoc(w) ==
    /\ job[w].pc = "get_doc"
    /\ job' = [job EXCEPT ![w].pc = "check", ![w].status = queue_status]
    /\ UNCHANGED <<queue_status, recipient_status, api_sends, overlap,
                   generatorVars, runVars, webVars>>

\* lines 25-27: the job skips a document that is Sent or Sending
SkipJob(w) ==
    /\ job[w].pc = "check"
    /\ job[w].status \in {"Sent", "Sending"}
    /\ job' = [job EXCEPT ![w] = [IdleWorker EXCEPT !.pc = "done"]]
    /\ UNCHANGED <<queue_status, recipient_status, api_sends, overlap,
                   generatorVars, runVars, webVars>>

\* line 29: the job calls send(force_send=True)
CallSend(w) ==
    /\ job[w].pc = "check"
    /\ job[w].status \notin {"Sent", "Sending"}
    /\ job' = [job EXCEPT ![w].pc = "send"]
    /\ UNCHANGED <<queue_status, recipient_status, api_sends, overlap,
                   generatorVars, runVars, webVars>>

\* lines 137-141: a call without force_send returns when can_send_now() is false
CannotSendNow(w) ==
    /\ job[w].pc = "send"
    /\ w # "job"
    /\ job' = [job EXCEPT ![w] = [IdleWorker EXCEPT !.pc = "done"]]
    /\ UNCHANGED <<queue_status, recipient_status, api_sends, overlap,
                   generatorVars, runVars, webVars>>

\* line 148: update_status(status="Sending", commit=True)
SetSending(w) ==
    /\ job[w].pc = "send"
    /\ queue_status' = "Sending"
    /\ job' = [job EXCEPT ![w].pc = "reload"]
    /\ UNCHANGED <<recipient_status, api_sends, overlap, generatorVars, runVars, webVars>>

\* lines 152-154: reload() returns and sent_to_at_least_one is bound
Reload(w) ==
    /\ job[w].pc = "reload"
    /\ job' = [job EXCEPT ![w].pc = "loop", ![w].recipients = recipient_status,
                          ![w].n = 1, ![w].sent_to_at_least_one = JBool(FALSE)]
    /\ UNCHANGED <<queue_status, recipient_status, api_sends, overlap,
                   generatorVars, runVars, webVars>>

\* line 152: reload() raises, the handler of line 188 takes over while
\* sent_to_at_least_one is not bound yet
ReloadRaises(w) ==
    /\ job[w].pc = "reload"
    /\ job' = [job EXCEPT ![w].pc = "except"]
    /\ UNCHANGED <<queue_status, recipient_status, api_sends, overlap,
                   generatorVars, runVars, webVars>>

\* lines 157-162: a recipient whose mail is sent is skipped
SkipRecipient(w) ==
    /\ job[w].pc = "loop"
    /\ job[w].n <= Len(job[w].recipients)
    /\ IsMailSent(job[w].recipients[job[w].n])
    /\ job' = [job EXCEPT ![w].n = @ + 1]
    /\ UNCHANGED <<queue_status, recipient_status, api_sends, overlap,
                   generatorVars, runVars, webVars>>

\* line 165: send_via_gmail_api returns True (the API accepted the message),
\* returns False, or raises
SendViaGmailApi(w) ==
    /\ job[w].pc = "loop"
    /\ job[w].n <= Len(job[w].recipients)
    /\ ~IsMailSent(job[w].recipients[job[w].n])
    /\ \E success \in {"true", "false", "raised"} :
          /\ job' = [job EXCEPT ![w].pc = "db_set", ![w].success = success]
          /\ api_sends' = IF success = "true"
                          THEN [api_sends EXCEPT ![job[w].n] = @ + 1]
                          ELSE api_sends
    /\ UNCHANGED <<queue_status, recipient_status, overlap, generatorVars, runVars, webVars>>

\* lines 167-182: recipient.db_set("status", ...) on the row and in the database
SetRecipientStatus(w) ==
    /\ job[w].pc = "db_set"
    /\ LET status == IF job[w].success = "true" THEN "Sent" ELSE "Error"
       IN  /\ recipient_status' = [recipient_status EXCEPT ![job[w].n] = status]
           /\ job' = [job EXCEPT
                         ![w].pc = "loop",
                         ![w].recipients = [@ EXCEPT ![job[w].n] = status],
                         ![w].n = @ + 1,
                         ![w].success = "none",
                         ![w].sent_to_at_least_one =
                             IF job[w].success = "true" THEN JBool(TRUE) ELSE @]
    /\ UNCHANGED <<queue_status, api_sends, overlap, generatorVars, runVars, webVars>>

\* lines 185 and 207: the loop is over, update_status_after_send reloads
ReloadAfterSend(w) ==
    /\ job[w].pc = "loop"
    /\ job[w].n > Len(job[w].recipients)
    /\ job' = [job EXCEPT ![w].pc = "count", ![w].recipients = recipient_status]
    /\ UNCHANGED <<queue_status, recipient_status, api_sends, overlap,
                   generatorVars, runVars, webVars>>

\* line 207: that reload raises
ReloadAfterSendRaises(w) ==
    /\ job[w].pc = "loop"
    /\ job[w].n > Len(job[w].recipients)
    /\ job' = [job EXCEPT ![w].pc = "except"]
    /\ UNCHANGED <<queue_status, recipient_status, api_sends, overlap,
                   generatorVars, runVars, webVars>>

\* lines 209-217: the status is set from the rows the reload returned
UpdateStatusAfterSend(w) ==
    /\ job[w].pc = "count"
    /\ queue_status' = StatusAfterSend(job[w].recipients)
    /\ job' = [job EXCEPT ![w] = [IdleWorker EXCEPT !.pc = "done"]]
    /\ UNCHANGED <<recipient_status, api_sends, overlap, generatorVars, runVars, webVars>>

\* lines 188-191: the handler sets Partially Sent or Error
HandleFailure(w) ==
    /\ job[w].pc = "except"
    /\ job[w].sent_to_at_least_one # Unbound
    /\ queue_status' = StatusAfterFailure(job[w].sent_to_at_least_one)
    /\ job' = [job EXCEPT ![w] = [IdleWorker EXCEPT !.pc = "done"]]
    /\ UNCHANGED <<recipient_status, api_sends, overlap, generatorVars, runVars, webVars>>

\* line 190 reads sent_to_at_least_one before line 154 has bound it:
\* UnboundLocalError leaves send(); the job logs it (lines 31-35)
HandlerRaises(w) ==
    /\ job[w].pc = "except"
    /\ job[w].sent_to_at_least_one = Unbound
    /\ job' = [job EXCEPT ![w] = [IdleWorker EXCEPT !.pc = "done"]]
    /\ UNCHANGED <<queue_status, recipient_status, api_sends, overlap,
                   generatorVars, runVars, webVars>>

\* the steps of a worker that has started
Step(w) ==
    \/ GetDoc(w) \/ SkipJob(w) \/ CallSend(w) \/ CannotSendNow(w) \/ SetSending(w)
    \/ Reload(w) \/ ReloadRaises(w) \/ SkipRecipient(w) \/ SendViaGmailApi(w)
    \/ SetRecipientStatus(w) \/ ReloadAfterSend(w) \/ ReloadAfterSendRaises(w)
    \/ UpdateStatusAfterSend(w) \/ HandleFailure(w) \/ HandlerRaises(w)

NextEmail == \E w \in Workers : Start(w) \/ Step(w)

SpecEmail == InitEmail /\ [][NextEmail]_vars

SpecEmailSeq == InitEmailSeq /\ [][NextEmail]_vars

\* a worker that has started goes on running
SpecEmailLive == SpecEmail /\ \A w \in Workers : WF_vars(Step(w))


-----------------------------------------------------------------------------
(* Properties of the Email Queue *)

\* C25: under any interleaving of the background job and send() calls on one
\* Email Queue document, the Gmail API accepts at most one message per
\* recipient.
C25_AtMostOneSendPerRecipient ==
    \A r \in DOMAIN api_sends : api_sends[r] <= 1

\* the worker is inside send(), past the write of Sending
InSend(w) == job[w].pc \in {"reload", "loop", "db_set", "count", "except"}

FinalStatuses == {"Sent", "Partially Sent", "Error"}

\* C26: every send() that has set the status to Sending eventually leaves the
\* queue in Sent, Partially Sent or Error, also when a reload or a send
\* raises; when no send() is under way the status is not Sending.
C26_SendingIsNeverLeftBehind ==
    /\ \A w \in Workers : InSend(w) ~> (~InSend(w) /\ queue_status \in FinalStatuses)
    /\ []((\A w \in Workers : ~InSend(w)) => queue_status # "Sending")

\* the status the recipient rows call for
StatusOfRows(rows) ==
    IF \A r \in DOMAIN rows : rows[r] = "Sent" THEN "Sent"
    ELSE IF \E r \in DOMAIN rows : rows[r] = "Sent" THEN "Partially Sent"
    ELSE "Error"

\* the recipient loop of the worker has run to its end
LoopEnded(w) == job[w].pc \in {"count", "except"} /\ job[w].n > Len(job[w].recipients)

\* the step with which such a send() ends, and the step after a failed send
StatusFollowsRows ==
    \A w \in Workers :
        /\ (LoopEnded(w) /\ job'[w].pc = "done") =>
               queue_status' = StatusOfRows(recipient_status')
        /\ (job[w].pc = "db_set" /\ job[w].success \in {"false", "raised"}) =>
               /\ recipient_status'[job[w].n] = "Error"
               /\ job'[w].pc = "loop"
               /\ job'[w].n = job[w].n + 1

\* C27: after a send() whose recipient loop ran to its end, the queue status
\* is Sent exactly when every recipient is Sent, Partially Sent exactly when
\* some but not all are, and Error exactly when none is; a recipient whose
\* send returned false or raised gets Error and the loop goes on.
C27_StatusFromRecipients == [][StatusFollowsRows]_vars

\* a step leaves every recipient that is Sent as it is, without an API send
SentStaysSent ==
    \A r \in DOMAIN recipient_status :
        recipient_status[r] = "Sent" =>
            /\ recipient_status'[r] = "Sent"
            /\ api_sends'[r] = api_sends[r]

\* C30: in a sequence of non-overlapping send() calls on one document, a
\* recipient whose status is Sent is skipped: no further API send is made
\* for it and its status stays Sent.
C30_SentIsSkipped == [][SentStaysSent]_vars

\* a later send() has passed the first recipient, sent by the earlier call
C30_Witness ==
    /\ ~overlap
    /\ \E w \in Workers :
          /\ job[w].pc = "loop"
          /\ job[w].n = 2
          /\ job[w].sent_to_at_least_one = JBool(FALSE)
          /\ \A v \in Workers \ {w} : job[v].pc = "done"
    /\ recipient_status[1] = "Sent"
    /\ api_sends[1] = 1


-----------------------------------------------------------------------------
(* src/app.py, non-production mode: the module-level connection, the        *)
(* before_request hook and the routes, one step per read or write of the    *)
(* global.  Strings are sequences of tokens.                                *)

\* the browsers and the threads that serve their requests
Browsers == {"b1", "b2"}

Threads == {"t1", "t2"}

\* lines 24-26: the credentials of the environment
ERPNEXT_URL == <<"https://one">>
ERP_API_KEY == <<"k1">>
ERP_API_SECRET == <<"s1">>

EnvironmentSession ==
    [erpnext_url |-> JStr(ERPNEXT_URL), erpnext_api_key |-> JStr(ERP_API_KEY),
     erpnext_api_secret |-> JStr(ERP_API_SECRET)]

\* a session cookie signed while the environment held other credentials
EarlierSession ==
    [erpnext_url |-> JStr(<<"https://two", "/">>), erpnext_api_key |-> JStr(<<"k2">>),
     erpnext_api_secret |-> JStr(<<"s2">>)]

\* line 643
_NO_AUTH_ROUTES == {"connect", "index", "static", "disconnect"}

\* the endpoints requested: the connect form posted, disconnect, and the
\* protected route doctypes
Endpoints == {"connect", "disconnect", "doctypes"}

\* str.rstrip("/")
RECURSIVE RStripSlash(_)
RStripSlash(s) ==
    IF s # <<>> /\ s[Len(s)] = "/" THEN RStripSlash(SubSeq(s, 1, Len(s) - 1)) ELSE s

\* lines 36-42
ERPNextConnection(base_url, api_key, api_secret) ==
    [k |-> "conn",
     base_url |-> RStripSlash(base_url),
     Authorization |-> <<"token ">> \o api_key \o <<":">> \o api_secret]

\* session.get(key)
SessionGet(s, key) == IF key \in DOMAIN s THEN s[key] ELSE JNone

\* str(session.get(key)), lines 664-666: None becomes the text 'None'
StrOf(v) == IF v = JNone THEN <<"None">> ELSE v.v

\* session.get(key) or default, lines 726-728
OrElse(v, default) ==
    IF v = JNone THEN default ELSE IF v.v = <<>> THEN default ELSE v.v

\* a thread that serves no request
NoRequest ==
    [pc |-> "idle", browser |-> "", endpoint |-> "", base_url |-> <<>>, api_key |-> <<>>,
     api_secret |-> <<>>, connected |-> FALSE, built |-> FALSE, validated |-> FALSE,
     ran |-> FALSE, used |-> JNone, flash |-> ""]

InitWeb ==
    /\ current_connection = JNone
    /\ session \in [Browsers -> {EmptyDict, EnvironmentSession, EarlierSession}]
    /\ request = [t \in Threads |-> NoRequest]
    /\ EmailIdle
    /\ field = EmptyDict
    /\ property_def = EmptyDict
    /\ fields = <<>>
    /\ actual_fields = <<>>
    /\ schema = EmptyDict
    /\ doctype_metadata = JNone
    /\ ts_code = <<>>
    /\ info = EmptyDict
    /\ conn = JNone
    /\ first_spec = JNone
    /\ doctypes = <<>>
    /\ provider = EmptyDict
    /\ i = 0
    /\ spec = EmptySpec
    /\ pc = "web"

\* a request of browser b for an endpoint reaches thread t
Arrive(t) ==
    /\ request[t].pc = "idle"
    /\ \E b \in Browsers, e \in Endpoints :
          request' = [request EXCEPT ![t] =
                         [NoRequest EXCEPT
                             !.pc = "before_request", !.browser = b, !.endpoint = e]]
    /\ UNCHANGED <<current_connection, session, generatorVars, runVars, emailVars>>

\* lines 660-671: the exempt routes pass; the other ones read the session and
\* are redirected when one of the three strings is empty.  connected records
\* whether the session read stores all three credentials.
BeforeRequest(t) ==
    /\ request[t].pc = "before_request"
    /\ LET r == request[t]
           base_url == StrOf(SessionGet(session[r.browser], "erpnext_url"))
           api_key == StrOf(SessionGet(session[r.browser], "erpnext_api_key"))
           api_secret == StrOf(SessionGet(session[r.browser], "erpnext_api_secret"))
           connected == DOMAIN session[r.browser] = DOMAIN EnvironmentSession
       IN  request' = [request EXCEPT ![t] =
               IF r.endpoint \in _NO_AUTH_ROUTES
               THEN [r EXCEPT !.pc = "route", !.connected = connected]
               ELSE IF base_url = <<>> \/ api_key = <<>> \/ api_secret = <<>>
               THEN [r EXCEPT !.pc = "responded", !.connected = connected,
                              !.flash = "Please connect to ERPNext first."]
               ELSE [r EXCEPT !.pc = "rebuild", !.connected = connected,
                              !.base_url = base_url, !.api_key = api_key,
                              !.api_secret = api_secret]]
    /\ UNCHANGED <<current_connection, session, generatorVars, runVars, emailVars>>

\* lines 674-675: the connection is rebuilt only when the global is None
Rebuild(t) ==
    /\ request[t].pc = "rebuild"
    /\ IF current_connection = JNone
       THEN /\ current_connection' = ERPNextConnection(request[t].base_url,
                                        request[t].api_key, request[t].api_secret)
            /\ request' = [request EXCEPT ![t].pc = "validate", ![t].built = TRUE]
       ELSE /\ current_connection' = current_connection
            /\ request' = [request EXCEPT ![t].pc = "validate"]
    /\ UNCHANGED <<session, generatorVars, runVars, emailVars>>

\* lines 678-679: validate_session accepts the credentials
SessionValid(t) ==
    /\ request[t].pc = "validate"
    /\ request[t].base_url # <<"None">>
    /\ request' = [request EXCEPT ![t].pc = "route", ![t].validated = TRUE]
    /\ UNCHANGED <<current_connection, session, generatorVars, runVars, emailVars>>

\* lines 685-690: the message flashed for each reason validate_session gives
InvalidFlash ==
    [expired |-> "Your ERPNext session has expired. Please reconnect.",
     unreachable |-> "ERPNext is unreachable. Please check the URL and reconnect.",
     other |-> "Connection lost. Please reconnect."]

\* lines 678-690: validate_session rejects them (always so for the URL 'None',
\* on which requests.get raises and the reason is the text of the exception):
\* the global and the session are cleared
SessionInvalid(t) ==
    /\ request[t].pc = "validate"
    /\ current_connection' = JNone
    /\ session' = [session EXCEPT ![request[t].browser] = EmptyDict]
    /\ \E reason \in IF request[t].base_url = <<"None">> THEN {"other"}
                      ELSE DOMAIN InvalidFlash :
          request' = [request EXCEPT ![t].pc = "responded", ![t].validated = TRUE,
                                     ![t].flash = InvalidFlash[reason]]
    /\ UNCHANGED <<generatorVars, runVars, emailVars>>

\* lines 721-748: connect with the form filled from the session or the
\* environment, test_connection succeeding
Connect(t) ==
    /\ request[t].pc = "route" /\ request[t].endpoint = "connect"
    /\ LET s == session[request[t].browser]
           base_url == OrElse(SessionGet(s, "erpnext_url"), ERPNEXT_URL)
           api_key == OrElse(SessionGet(s, "erpnext_api_key"), ERP_API_KEY)
           api_secret == OrElse(SessionGet(s, "erpnext_api_secret"), ERP_API_SECRET)
       IN  /\ session' = [session EXCEPT ![request[t].browser] =
                             [erpnext_url |-> JStr(base_url),
                              erpnext_api_key |-> JStr(api_key),
                              erpnext_api_secret |-> JStr(api_secret)]]
           /\ current_connection' = ERPNextConnection(base_url, api_key, api_secret)
    /\ request' = [request EXCEPT ![t].pc = "responded", ![t].ran = TRUE,
                                  ![t].flash = "Connected successfully!"]
    /\ UNCHANGED <<generatorVars, runVars, emailVars>>

\* lines 749-757: test_connection fails or raises
ConnectFails(t) ==
    /\ request[t].pc = "route" /\ request[t].endpoint = "connect"
    /\ request' = [request EXCEPT ![t].pc = "responded", ![t].ran = TRUE,
                                  ![t].flash = "Connection failed"]
    /\ UNCHANGED <<current_connection, session, generatorVars, runVars, emailVars>>

\* lines 704-714
Disconnect(t) ==
    /\ request[t].pc = "route" /\ request[t].endpoint = "disconnect"
    /\ current_connection' = JNone
    /\ session' = [session EXCEPT ![request[t].browser] = EmptyDict]
    /\ request' = [request EXCEPT ![t].pc = "responded", ![t].ran = TRUE,
                                  ![t].flash = "Disconnected successfully."]
    /\ UNCHANGED <<generatorVars, runVars, emailVars>>

\* lines 771-773: the protected route tests the global
RouteTest(t) ==
    /\ request[t].pc = "route" /\ request[t].endpoint \notin _NO_AUTH_ROUTES
    /\ request' = [request EXCEPT ![t] =
           IF current_connection = JNone
           THEN [@ EXCEPT !.pc = "responded", !.ran = TRUE,
                          !.flash = "Please connect to ERPNext first"]
           ELSE [@ EXCEPT !.pc = "use", !.ran = TRUE]]
    /\ UNCHANGED <<current_connection, session, generatorVars, runVars, emailVars>>

\* line 776: the protected route calls the global connection (AttributeError
\* when another request has set it to None in between)
RouteUse(t) ==
    /\ request[t].pc = "use"
    /\ request' = [request EXCEPT ![t].pc = "responded", ![t].used = current_connection,
                                  ![t].flash = IF current_connection = JNone
                                               THEN "AttributeError" ELSE ""]
    /\ UNCHANGED <<current_connection, session, generatorVars, runVars, emailVars>>

\* the response is sent and the thread is free again
Respond(t) ==
    /\ request[t].pc = "responded"
    /\ request' = [request EXCEPT ![t] = NoRequest]
    /\ UNCHANGED <<current_connection, session, generatorVars, runVars, emailVars>>

NextWeb ==
    \E t \in Threads :
        \/ Arrive(t) \/ BeforeRequest(t) \/ Rebuild(t) \/ SessionValid(t)
        \/ SessionInvalid(t) \/ Connect(t) \/ ConnectFails(t) \/ Disconnect(t)
        \/ RouteTest(t) \/ RouteUse(t) \/ Respond(t)

SpecWeb == InitWeb /\ [][NextWeb]_vars

-----------------------------------------------------------------------------
(* Properties of the session handling *)

\* C28: whenever a protected route handler uses the global connection, that
\* connection was built from the base URL, API key and API secret stored in
\* the session of the request being served.
C28_ConnectionOfOwnSession ==
    \A t \in Threads :
        (request[t].pc = "responded" /\ request[t].used # JNone) =>
            request[t].used = ERPNextConnection(request[t].base_url, request[t].api_key,
                                                request[t].api_secret)

\* C29: a request to a protected endpoint whose session lacks the URL, the
\* API key or the API secret is redirected with the warning 'Please connect
\* to ERPNext first.' before any connection object is built and before
\* validate_session is called; the route handler does not run.
C29_MissingCredentialsRedirect ==
    \A t \in Threads :
        (/\ request[t].pc \notin {"idle", "before_request"}
         /\ request[t].endpoint \notin _NO_AUTH_ROUTES
         /\ ~request[t].connected) =>
            /\ request[t].pc = "responded"
            /\ request[t].flash = "Please connect to ERPNext first."
            /\ ~request[t].built
            /\ ~request[t].validated
            /\ ~request[t].ran

=============================================================================
